---- MODULE Spec2Model ----
(***************************************************************************)
(* gocode-router: provider registry, dispatcher (router), HTTP handlers,   *)
(* Claude SSE synthesis and the config hot-reload watcher.                 *)
(***************************************************************************)
EXTENDS Integers, Sequences, FiniteSets, TLC

(***************************************************************************)
(* Bounds of the model.                                                    *)
(***************************************************************************)
MaxModels == 2
MaxEdits == 1
MaxRequests == 1
MaxMessages == 2
MaxText == 3
MaxTexts == 2
MaxWrites == 2
MaxRewrites == 1

(***************************************************************************)
(* Values.                                                                 *)
(***************************************************************************)
ModelIds == {"m1", "m2"}
Keys == {"m1", "m2", "alias-x"}
AliasKeys == {"alias-x", "m2"}
ProviderNames == {"openai", "claude"}

\* models.Model: the descriptor of a model.
Model(id, prov, style) == [ID |-> id, Provider |-> prov, APIStyle |-> style]

\* models.Model{}: the zero descriptor.
ZeroModel == Model("", "", "")

\* A provider.Provider value: its Name() and what ListModels returns.
Provider(name, list) == [name |-> name, models |-> list]

\* The nil Provider interface value.
NilProvider == Provider("<nil>", <<>>)

\* modelEntry
modelEntry(m, p) == [model |-> m, provider |-> p]

\* NewRegistry: both maps empty.
NewRegistry == [models |-> <<>>, byName |-> <<>>]

\* Error values of the provider package (NoErr is Go's nil error).
NoErr == "nil"
ErrNilProvider == "provider must not be nil"
ErrProviderRegistered == "provider already registered"
ErrDuplicateModel == "model already registered"
ErrAliasConflict == "alias conflicts with existing model"
ErrAliasUnknownTarget == "alias references unknown model"
ErrUnknownModel == "unknown model"
ErrUnsupportedOperation == "unsupported provider operation"

(***************************************************************************)
(* Registry.RegisterProvider                                               *)
(***************************************************************************)
RECURSIVE InsertModelsOverwriting(_, _, _, _)
\* InsertModels without the collision check: a listed id replaces the entry.
InsertModelsOverwriting(tbl, p, list, i) ==
    IF i > Len(list) THEN [models |-> tbl, err |-> NoErr]
    ELSE InsertModelsOverwriting((list[i].ID :> modelEntry(list[i], p)) @@ tbl, p, list, i + 1)

RECURSIVE InsertModels(_, _, _, _)
\* The loop over modelsList: the first id already in the table aborts, and
\* the ids inserted before it stay in the table.
InsertModels(tbl, p, list, i) ==
    IF i > Len(list) THEN [models |-> tbl, err |-> NoErr]
    ELSE IF list[i].ID \in DOMAIN tbl
         THEN [models |-> tbl, err |-> ErrDuplicateModel]
         ELSE InsertModels(tbl @@ (list[i].ID :> modelEntry(list[i], p)), p, list, i + 1)

RECURSIVE InsertAliasesRebinding(_, _, _)
\* InsertAliases without the conflict check: an alias rebinds an existing key.
InsertAliasesRebinding(tbl, order, i) ==
    IF i > Len(order) THEN [models |-> tbl, err |-> NoErr]
    ELSE IF order[i][2] \notin DOMAIN tbl
         THEN [models |-> tbl, err |-> ErrAliasUnknownTarget]
         ELSE InsertAliasesRebinding((order[i][1] :> tbl[order[i][2]]) @@ tbl, order, i + 1)

RECURSIVE InsertAliasesDangling(_, _, _)
\* InsertAliases without the target check: an alias of an unknown target is
\* bound to the zero entry.
InsertAliasesDangling(tbl, order, i) ==
    IF i > Len(order) THEN [models |-> tbl, err |-> NoErr]
    ELSE IF order[i][1] \in DOMAIN tbl
         THEN [models |-> tbl, err |-> ErrAliasConflict]
         ELSE InsertAliasesDangling(
                tbl @@ (order[i][1] :> IF order[i][2] \in DOMAIN tbl THEN tbl[order[i][2]]
                                       ELSE modelEntry(ZeroModel, NilProvider)),
                order, i + 1)

RECURSIVE InsertAliases(_, _, _)
\* The loop over the alias map, in the iteration order `order' (a sequence
\* of <<alias, target>> pairs; Go leaves the order of a map range open).
InsertAliases(tbl, order, i) ==
    IF i > Len(order) THEN [models |-> tbl, err |-> NoErr]
    ELSE IF order[i][1] \in DOMAIN tbl
         THEN [models |-> tbl, err |-> ErrAliasConflict]
         ELSE IF order[i][2] \notin DOMAIN tbl
              THEN [models |-> tbl, err |-> ErrAliasUnknownTarget]
              ELSE InsertAliases(tbl @@ (order[i][1] :> tbl[order[i][2]]), order, i + 1)

\* RegisterProvider on registry value reg: the registry after the call and
\* the error it returns.
RegisterProvider(reg, p, order) ==
    IF p = NilProvider THEN [reg |-> reg, err |-> ErrNilProvider]
    ELSE IF p.name \in DOMAIN reg.byName
         THEN [reg |-> reg, err |-> ErrProviderRegistered]
         ELSE LET named == reg.byName @@ (p.name :> p)
                  ms == InsertModels(reg.models, p, p.models, 1)
              IN  IF ms.err # NoErr
                  THEN [reg |-> [models |-> ms.models, byName |-> named], err |-> ms.err]
                  ELSE LET as == InsertAliases(ms.models, order, 1)
                       IN  [reg |-> [models |-> as.models, byName |-> named], err |-> as.err]

(***************************************************************************)
(* Registry.LookupModel                                                    *)
(***************************************************************************)
\* LookupModel without the ok check: a missing key yields the zero entry and
\* no error.
LookupModelUnchecked(reg, modelID) ==
    IF modelID \notin DOMAIN reg.models
    THEN [model |-> ZeroModel, provider |-> NilProvider, err |-> NoErr]
    ELSE [model |-> reg.models[modelID].model,
          provider |-> reg.models[modelID].provider,
          err |-> NoErr]

LookupModel(reg, modelID) ==
    IF modelID \notin DOMAIN reg.models
    THEN [model |-> ZeroModel, provider |-> NilProvider, err |-> ErrUnknownModel]
    ELSE [model |-> reg.models[modelID].model,
          provider |-> reg.models[modelID].provider,
          err |-> NoErr]

(***************************************************************************)
(* Inputs of the registry operations.                                      *)
(***************************************************************************)
SeqsUpTo(S, n) == UNION {[1..k -> S] : k \in 0..n}

\* The api_style a provider of that name accepts for its models.
StyleOf(name) == IF name = "claude" THEN "claude" ELSE "openai"

\* The providers offered to RegisterProvider: a name and up to MaxModels
\* descriptors (the same id may be listed twice), or nil.
ModelLists(name) ==
    {[i \in DOMAIN ids |-> Model(ids[i], name, StyleOf(name))] : ids \in SeqsUpTo(ModelIds, MaxModels)}

Providers ==
    UNION {{Provider(n, l) : l \in ModelLists(n)} : n \in ProviderNames} \cup {NilProvider}

\* The iteration orders of the alias maps from AliasKeys to Keys: the keys of
\* one map are distinct.
AliasOrders ==
    {o \in SeqsUpTo(AliasKeys \X Keys, Cardinality(AliasKeys)) :
        \A i, j \in DOMAIN o : i # j => o[i][1] # o[j][1]}

(***************************************************************************)
(* config.Config, config.Load and Config.Validate                          *)
(***************************************************************************)
ModelConfig(id, style) == [id |-> id, api_style |-> style]

ProviderConfig(key, url, models, aliases) ==
    [present |-> TRUE, api_key |-> key, base_url |-> url, models |-> models, aliases |-> aliases]

\* Providers.NVIDIA == nil
NoProviderConfig ==
    [present |-> FALSE, api_key |-> "", base_url |-> "", models |-> <<>>, aliases |-> <<>>]

Config(port, openai, claude, nvidia) ==
    [port |-> port, openai |-> openai, claude |-> claude, nvidia |-> nvidia]

\* Config{}: what Load returns next to an error.
ZeroConfig == Config(0, NoProviderConfig, NoProviderConfig, NoProviderConfig)

\* strings.TrimSpace(s) == "" on the strings the configurations use.
IsBlank(s) == s \in {"", " "}

validateAPIStyle(style) == style \in {"openai", "claude"}

validateProvider(pc) ==
    /\ ~IsBlank(pc.api_key)
    /\ ~IsBlank(pc.base_url)
    /\ Len(pc.models) > 0
    /\ \A i \in DOMAIN pc.models :
        ~IsBlank(pc.models[i].id) /\ validateAPIStyle(pc.models[i].api_style)
    /\ \A a \in DOMAIN pc.aliases : ~IsBlank(a) /\ ~IsBlank(pc.aliases[a])

MaxPort == 65535

\* Config.Validate() == nil
Validate(c) ==
    /\ c.port > 0 /\ c.port <= MaxPort
    /\ validateProvider(c.openai)
    /\ validateProvider(c.claude)
    /\ c.nvidia.present => validateProvider(c.nvidia)

OpenAIModels == <<ModelConfig("m1", "openai")>>
ClaudeModels == <<ModelConfig("m2", "claude")>>
Upstream(models, aliases) == ProviderConfig("key", "https://upstream", models, aliases)

\* The configuration files the operator writes, by name: what yaml.Unmarshal
\* yields for each.
FileConfig(content) ==
    CASE content = "aliasToM1" ->
           Config(8080, Upstream(OpenAIModels, "alias-x" :> "m1"), Upstream(ClaudeModels, <<>>),
                  NoProviderConfig)
      [] content = "aliasToM2" ->
           Config(9090, Upstream(OpenAIModels, <<>>), Upstream(ClaudeModels, "alias-x" :> "m2"),
                  NoProviderConfig)
      [] content = "portZero" ->
           Config(0, Upstream(OpenAIModels, "alias-x" :> "m1"), Upstream(ClaudeModels, <<>>),
                  NoProviderConfig)
      [] content = "aliasOfModel" ->
           Config(9090, Upstream(OpenAIModels, <<>>), Upstream(ClaudeModels, "m1" :> "m2"),
                  NoProviderConfig)
      [] content = "aliasChain" ->
           Config(9090, Upstream(OpenAIModels, ("alias-x" :> "m1") @@ ("alias-y" :> "alias-x")),
                  Upstream(ClaudeModels, <<>>), NoProviderConfig)
      [] content = "mashup" ->
           Config(8080, Upstream(OpenAIModels, <<>>),
                  Upstream(<<ModelConfig("claude-3.5-sonnet", "claude")>>, <<>>),
                  Upstream(<<ModelConfig("moonshotai/kimi-k2.5", "openai")>>,
                           "claude-3.5-sonnet" :> "moonshotai/kimi-k2.5"))
      [] OTHER -> ZeroConfig

\* What the config path can hold: one of the files above, or nothing (the
\* file was removed).
YamlFiles == {"aliasToM1", "aliasToM2", "portZero", "aliasOfModel", "aliasChain"}
FileContents == YamlFiles \cup {"absent"}

\* The files that are well-formed YAML: those above and the README's
\* "NVIDIA Kimi + Claude CLI Mashup", completed by a port and an openai section.
ConfigFiles == YamlFiles \cup {"mashup"}

\* config.Load: ReadFile, yaml.Unmarshal, Validate.
Load(content) ==
    IF content = "absent" THEN [cfg |-> ZeroConfig, err |-> "read config file"]
    ELSE IF content \notin ConfigFiles THEN [cfg |-> ZeroConfig, err |-> "parse config file"]
    ELSE IF ~Validate(FileConfig(content)) THEN [cfg |-> ZeroConfig, err |-> "invalid config"]
    ELSE [cfg |-> FileConfig(content), err |-> NoErr]

(***************************************************************************)
(* The provider constructors and factory.RegisterConfiguredProviders       *)
(***************************************************************************)
\* strings.TrimRight(cfg.BaseURL, "/") == ""
NoBaseURL(pc) == pc.base_url \in {"", "/"}

ModelsOf(name, pc) ==
    [i \in DOMAIN pc.models |-> Model(pc.models[i].id, name, pc.models[i].api_style)]

\* openai.New and claude.New: every model must carry the adapter's api_style.
NewStyled(name, style, pc) ==
    IF NoBaseURL(pc) THEN [p |-> NilProvider, err |-> "base url must not be empty"]
    ELSE IF \E i \in DOMAIN pc.models : pc.models[i].api_style # style
         THEN [p |-> NilProvider, err |-> "unsupported api_style"]
         ELSE [p |-> Provider(name, ModelsOf(name, pc)), err |-> NoErr]

\* nvidia.New: all models, each routed by its api_style.
NewNvidia(name, pc) ==
    IF NoBaseURL(pc) THEN [p |-> NilProvider, err |-> "base url must not be empty"]
    ELSE IF \E i \in DOMAIN pc.models : pc.models[i].api_style \notin {"openai", "claude"}
         THEN [p |-> NilProvider, err |-> "unsupported api_style"]
         ELSE [p |-> Provider(name, ModelsOf(name, pc)), err |-> NoErr]

\* The orders in which a range over the alias map can visit its entries.
IterationOrders(aliases) ==
    LET n == Cardinality(DOMAIN aliases)
    IN  {[i \in 1..n |-> <<f[i], aliases[f[i]]>>] :
            f \in {g \in [1..n -> DOMAIN aliases] : \A i, j \in 1..n : i # j => g[i] # g[j]}}

\* One provider of RegisterConfiguredProviders: construct it, register it;
\* the first error ends the whole function.
RegisterConfigured(out, made, aliases) ==
    IF out.err # NoErr THEN {out}
    ELSE IF made.err # NoErr THEN {[reg |-> out.reg, err |-> made.err]}
    ELSE {RegisterProvider(out.reg, made.p, o) : o \in IterationOrders(aliases)}

\* RegisterConfiguredProviders: openai, claude, then nvidia when configured.
\* The set of the outcomes the alias iteration orders allow.
RegisterConfiguredProviders(cfg, reg) ==
    LET s1 == RegisterConfigured([reg |-> reg, err |-> NoErr],
                                 NewStyled("openai", "openai", cfg.openai), cfg.openai.aliases)
        s2 == UNION {RegisterConfigured(o, NewStyled("claude", "claude", cfg.claude),
                                        cfg.claude.aliases) : o \in s1}
    IN  IF cfg.nvidia.present
        THEN UNION {RegisterConfigured(o, NewNvidia("nvidia", cfg.nvidia),
                                       cfg.nvidia.aliases) : o \in s2}
        ELSE s2

\* A buildRouter that returns the router whatever the registration returned.
buildRouterIgnoringError(cfg) ==
    {[b EXCEPT !.err = NoErr] : b \in RegisterConfiguredProviders(cfg, NewRegistry)}

\* buildRouter: a fresh registry, populated from cfg.
buildRouter(cfg) == RegisterConfiguredProviders(cfg, NewRegistry)

(***************************************************************************)
(* The hot-reload tick of watchConfigFile, after the stat.                 *)
(***************************************************************************)
\* A tick that loads, builds and swaps also on a failed build.
ReloadSwappingOnFailure(content, port) ==
    LET ld == Load(content)
        cfg == IF port # 0 THEN [ld.cfg EXCEPT !.port = port] ELSE ld.cfg
    IN  IF ld.err # NoErr
        THEN {[swap |-> FALSE, cfg |-> ZeroConfig, reg |-> NewRegistry, log |-> "config reload failed"]}
        ELSE {[swap |-> TRUE, cfg |-> cfg, reg |-> b.reg,
               log |-> IF b.err = NoErr THEN "configuration reloaded"
                       ELSE "provider rebuild failed"] : b \in buildRouter(cfg)}

\* A tick that does not reapply the --port override.
ReloadForgettingOverride(content, port) ==
    LET ld == Load(content)
    IN  IF ld.err # NoErr
        THEN {[swap |-> FALSE, cfg |-> ZeroConfig, reg |-> NewRegistry, log |-> "config reload failed"]}
        ELSE {IF b.err = NoErr
              THEN [swap |-> TRUE, cfg |-> ld.cfg, reg |-> b.reg, log |-> "configuration reloaded"]
              ELSE [swap |-> FALSE, cfg |-> ZeroConfig, reg |-> NewRegistry,
                    log |-> "provider rebuild failed"] : b \in buildRouter(ld.cfg)}

\* Load the changed file, reapply the port override, build the router: what
\* the tick logs, and the (cfg, registry) it hands to UpdateRouting if any.
Reload(content, port) ==
    LET ld == Load(content)
        cfg == IF port # 0 THEN [ld.cfg EXCEPT !.port = port] ELSE ld.cfg
    IN  IF ld.err # NoErr
        THEN {[swap |-> FALSE, cfg |-> ZeroConfig, reg |-> NewRegistry, log |-> "config reload failed"]}
        ELSE {IF b.err = NoErr
              THEN [swap |-> TRUE, cfg |-> cfg, reg |-> b.reg, log |-> "configuration reloaded"]
              ELSE [swap |-> FALSE, cfg |-> ZeroConfig, reg |-> NewRegistry,
                    log |-> "provider rebuild failed"] : b \in buildRouter(cfg)}

(***************************************************************************)
(* The upstream replies, the unified response and the Claude SSE frames.   *)
(***************************************************************************)
MaxBlocks == 2

\* The characters of a text: a letter, a line feed, a backslash. A text is a
\* sequence of characters.
Chars == {"n", "LF", "BSL"}
BlockTexts == SeqsUpTo(Chars, 1)

\* contentBlock of a Claude reply: text blocks, and a block of another type.
ContentBlocks ==
    {[Type |-> "text", Text |-> t] : t \in BlockTexts} \cup {[Type |-> "tool_use", Text |-> <<>>]}

\* messageResponse: what the Claude upstream answers with status < 400.
ClaudeReplies ==
    [api : {"claude"}, id : {"msg_1"}, role : {"", "assistant"},
     content : SeqsUpTo(ContentBlocks, MaxBlocks), stop_reason : {"end_turn"}]

\* chatChoice
ChatChoices == [role : {"assistant"}, content : BlockTexts, finish_reason : {"stop"}]

\* chatResponse: what the OpenAI upstream answers with status < 400.
OpenAIReplies ==
    [api : {"openai"}, id : {"chatcmpl_1"}, choices : SeqsUpTo(ChatChoices, MaxBlocks)]

\* No reply: the round trip failed or the upstream answered status >= 400.
NoReply == [api |-> ""]

\* models.UnifiedChatResponse
UnifiedChatResponse(id, role, content, finish) ==
    [ID |-> id, Role |-> role, Content |-> content, FinishReason |-> finish]

\* The nil *UnifiedChatResponse.
NilResponse == UnifiedChatResponse("", "", <<>>, "")

RECURSIVE WriteBlocks(_)
\* The strings.Builder loop of messageResponse.toUnified: the block texts,
\* one after the other.
WriteBlocks(blocks) ==
    IF blocks = <<>> THEN <<>> ELSE Head(blocks).Text \o WriteBlocks(Tail(blocks))

\* messageResponse.toUnified
claudeToUnified(r) ==
    IF Len(r.content) = 0
    THEN [resp |-> NilResponse, err |-> "claude response missing content blocks"]
    ELSE IF \E i \in DOMAIN r.content : r.content[i].Type # "text"
         THEN [resp |-> NilResponse, err |-> "claude returned unsupported content block type"]
         ELSE [resp |-> UnifiedChatResponse(r.id, IF r.role = "" THEN "assistant" ELSE r.role,
                                            WriteBlocks(r.content), r.stop_reason),
               err |-> NoErr]

\* chatResponse.toUnified
openaiToUnified(r) ==
    IF Len(r.choices) = 0
    THEN [resp |-> NilResponse, err |-> "openai response did not include choices"]
    ELSE [resp |-> UnifiedChatResponse(r.id, r.choices[1].role, r.choices[1].content,
                                       r.choices[1].finish_reason),
          err |-> NoErr]

\* Provider.Chat of the adapter p on a request without the stream flag: the
\* round trip fails, or the reply is converted.
Chat(p) ==
    {[reply |-> NoReply, resp |-> NilResponse, err |-> "upstream error"]}
    \cup IF p.name = "claude"
         THEN {[reply |-> r, resp |-> claudeToUnified(r).resp, err |-> claudeToUnified(r).err] :
                  r \in ClaudeReplies}
         ELSE {[reply |-> r, resp |-> openaiToUnified(r).resp, err |-> openaiToUnified(r).err] :
                  r \in OpenAIReplies}

RECURSIVE MarshalString(_)
\* json.Marshal of a string: a line feed and a backslash are escaped.
MarshalString(s) ==
    IF s = <<>> THEN <<>>
    ELSE (CASE Head(s) = "LF" -> <<"BSL", "n">>
            [] Head(s) = "BSL" -> <<"BSL", "BSL">>
            [] OTHER -> <<Head(s)>>) \o MarshalString(Tail(s))

\* json.Marshal(payload): the text of the payload, if it has one, is a JSON
\* string.
Marshal(payload) ==
    IF "text" \in DOMAIN payload THEN [payload EXCEPT !.text = MarshalString(@)] ELSE payload

\* An events list with content_block_stop ahead of content_block_delta.
ClaudeEventsStopBeforeDelta(modelID, resp) ==
    << [name |-> "message_start",
        payload |-> [type |-> "message_start", id |-> resp.ID, role |-> resp.Role,
                     model |-> modelID]],
       [name |-> "content_block_start",
        payload |-> [type |-> "content_block_start", index |-> 0, text |-> <<>>]],
       [name |-> "content_block_stop",
        payload |-> [type |-> "content_block_stop", index |-> 0]],
       [name |-> "content_block_delta",
        payload |-> [type |-> "content_block_delta", index |-> 0, text |-> resp.Content]],
       [name |-> "message_delta",
        payload |-> [type |-> "message_delta", stop_reason |-> resp.FinishReason]],
       [name |-> "message_stop", payload |-> [type |-> "message_stop"]] >>

\* writeClaudeStream: the events list (text is content_block.text of the
\* second event and delta.text of the third).
ClaudeEvents(modelID, resp) ==
    << [name |-> "message_start",
        payload |-> [type |-> "message_start", id |-> resp.ID, role |-> resp.Role,
                     model |-> modelID]],
       [name |-> "content_block_start",
        payload |-> [type |-> "content_block_start", index |-> 0, text |-> <<>>]],
       [name |-> "content_block_delta",
        payload |-> [type |-> "content_block_delta", index |-> 0, text |-> resp.Content]],
       [name |-> "content_block_stop",
        payload |-> [type |-> "content_block_stop", index |-> 0]],
       [name |-> "message_delta",
        payload |-> [type |-> "message_delta", stop_reason |-> resp.FinishReason]],
       [name |-> "message_stop", payload |-> [type |-> "message_stop"]] >>

\* What a Write of the response writer does: all bytes, none, or some.
WriteOutcomes == {"written", "failed", "short"}

\* The first Fprintf of writeSSEEvent: "event: <name>\n"
EventLine(name) == [line |-> "event", name |-> name]

\* The second Fprintf of writeSSEEvent: "data: <json>\n\n"
DataLine(json) == [line |-> "data", json |-> json]

\* The bytes of a Write that failed half way.
CutLine == [line |-> "cut"]

\* The body c.JSON writes: an error envelope or a Claude message.
JSONBody(type, text) == [line |-> "json", type |-> type, text |-> MarshalString(text)]

\* The body after a Write of chunk with that outcome.
Write(body, chunk, outcome) ==
    CASE outcome = "written" -> Append(body, chunk)
      [] outcome = "short" -> Append(body, CutLine)
      [] OTHER -> body

\* requestError, by Status and Type; the zero value stands for an error that
\* is no requestError.
requestError(status, type) == [Status |-> status, Type |-> type]
PlainError == requestError(0, "")
NoError == requestError(-1, "")

\* openAIErrorHandler: the status and type of the envelope it writes.
openAIErrorHandler(err) ==
    IF err = PlainError THEN requestError(500, "server_error") ELSE err

\* The /v1/messages handler's state between two requests.
NoMsgReq ==
    [pc |-> "idle", model |-> "", requestedStream |-> FALSE, canFlush |-> FALSE,
     reply |-> NoReply, resp |-> NilResponse, modelID |-> "", k |-> 0, err |-> NoError,
     status |-> 0, contentType |-> "", body |-> <<>>, flushed |-> 0, flushes |-> 0,
     writeFailed |-> FALSE, cancelled |-> FALSE]

(***************************************************************************)
(* Request bodies, the translators' validation and decodeRequestBody.      *)
(***************************************************************************)
maxBodyBytes == 1048576

Roles == {"user", "assistant", "system", "tool", "critic"}
Contents == {"hi", " "}
MessageLists == SeqsUpTo([Role : Roles, Content : Contents], MaxMessages)

\* max_tokens is a *int: absent, or a value.
MaxTokensValues == {[set |-> FALSE, value |-> 0], [set |-> TRUE, value |-> 0],
                    [set |-> TRUE, value |-> 16]}

\* No request on the ingress path yet.
NoWireRequest ==
    [model |-> "", messages |-> <<>>, prompt |-> "", stream |-> FALSE,
     max_tokens |-> [set |-> FALSE, value |-> 0]]

NoBody == [size |-> 0, form |-> "empty", req |-> NoWireRequest]

\* The model names a client sends: ids and an alias of the plane, names the
\* plane does not know, and no name.
IngressModels == {"", "m1", "alias-x", "n1", "n2", "unlisted", "unknown_model"}

IngressEndpoints == {"/v1/chat/completions", "/v1/completions", "/v1/messages"}

\* The JSON objects a client posts to an endpoint, as the fields the
\* translators read.
WireRequests(endpoint) ==
    IF endpoint = "/v1/completions"
    THEN [model : IngressModels, messages : {<<>>}, prompt : Contents, stream : BOOLEAN,
          max_tokens : MaxTokensValues]
    ELSE [model : IngressModels, messages : MessageLists, prompt : {""}, stream : BOOLEAN,
          max_tokens : MaxTokensValues]

\* The bodies a client posts: nothing, bytes that are no JSON, an object
\* followed by more, an object; each within maxBodyBytes or beyond it.
BodySizes == {2, maxBodyBytes, maxBodyBytes + 1}

Bodies(endpoint) ==
    {NoBody}
    \cup [size : BodySizes, form : {"garbage", "trailing"}, req : {NoWireRequest}]
    \cup [size : BodySizes, form : {"object"}, req : WireRequests(endpoint)]

\* An error value: the sentinel errors.Is finds in it ("" for none) and its
\* Error() text, in pieces.
GoError(wraps, text) == [wraps |-> wraps, text |-> text]
NilError == GoError("", <<>>)

\* ChatMessage.validate
allowedRoles == {"system", "user", "assistant", "tool"}

ChatMessageValidate(m) ==
    IF m.Role \notin allowedRoles THEN GoError("", <<"invalid role", ": ", m.Role>>)
    ELSE IF IsBlank(m.Content)
         THEN GoError("", <<"invalid message content", ": ",
                            "message content must not be empty">>)
         ELSE NilError

\* ClaudeMessage.validate
ClaudeMessageValidate(m) ==
    IF m.Role \notin {"user", "assistant"} THEN GoError("", <<"invalid role", ": ", m.Role>>)
    ELSE IF IsBlank(m.Content) THEN GoError("", <<"invalid message content">>)
         ELSE NilError

\* The first error in the results of validating the messages in their order.
FirstError(errs) ==
    IF \A i \in DOMAIN errs : errs[i] = NilError THEN NilError
    ELSE errs[CHOOSE i \in DOMAIN errs :
                 errs[i] # NilError /\ \A j \in DOMAIN errs : j < i => errs[j] = NilError]

\* ChatCompletionRequest.UnmarshalJSON: the messages are validated as they
\* are decoded, then the request.
ChatCompletionRequestUnmarshal(r) ==
    LET errs == [i \in DOMAIN r.messages |-> ChatMessageValidate(r.messages[i])]
    IN  IF FirstError(errs) # NilError THEN FirstError(errs)
        ELSE IF r.model = "" THEN GoError("", <<"model must be provided">>)
        ELSE IF r.messages = <<>> THEN GoError("", <<"at least one message is required">>)
        ELSE NilError

\* ClaudeMessageRequest.UnmarshalJSON
ClaudeMessageRequestUnmarshal(r) ==
    LET errs == [i \in DOMAIN r.messages |-> ClaudeMessageValidate(r.messages[i])]
    IN  IF FirstError(errs) # NilError THEN FirstError(errs)
        ELSE IF r.model = "" THEN GoError("", <<"model must be provided">>)
        ELSE IF r.messages = <<>> THEN GoError("", <<"at least one message is required">>)
        ELSE NilError

\* CompletionRequest.UnmarshalJSON
CompletionRequestUnmarshal(r) ==
    IF r.model = "" THEN GoError("", <<"model must be provided">>)
    ELSE IF IsBlank(r.prompt) THEN GoError("", <<"prompt must not be empty">>)
    ELSE NilError

\* json.Unmarshal into the endpoint's request type.
Unmarshal(endpoint, r) ==
    CASE endpoint = "/v1/chat/completions" -> ChatCompletionRequestUnmarshal(r)
      [] endpoint = "/v1/completions" -> CompletionRequestUnmarshal(r)
      [] OTHER -> ClaudeMessageRequestUnmarshal(r)

\* A requestError: what the error handler writes as the response.
HTTPError(status, type, message) == [status |-> status, type |-> type, message |-> message]
NoHTTPError == HTTPError(0, "", <<>>)

\* decodeRequestBody: the decoder reads through http.MaxBytesReader, whose
\* error past maxBodyBytes is one more decoding error; then one JSON value,
\* then end of input.
decodeRequestBody(endpoint, body) ==
    IF body.form = "empty"
    THEN HTTPError(400, "invalid_request_error", <<"request body is required">>)
    ELSE IF body.form = "garbage"
    THEN HTTPError(400, "invalid_request_error", <<"invalid JSON payload: ", "invalid character">>)
    ELSE IF body.form = "object" /\ body.size > maxBodyBytes
    THEN HTTPError(400, "invalid_request_error",
                   <<"invalid JSON payload: ", "http: request body too large">>)
    ELSE IF body.form = "object" /\ Unmarshal(endpoint, body.req) # NilError
    THEN HTTPError(400, "invalid_request_error",
                   <<"invalid JSON payload: ">> \o Unmarshal(endpoint, body.req).text)
    ELSE IF body.form = "trailing"
    THEN HTTPError(400, "invalid_request_error",
                   <<"request body must contain a single JSON object">>)
    ELSE NoHTTPError

(***************************************************************************)
(* The adapters: what they check, what they send upstream, what they       *)
(* make of the answer.                                                     *)
(***************************************************************************)
\* ToUnified of the three request types: the canonical request.
ToUnified(r) ==
    [Model |-> r.model, Messages |-> r.messages, Prompt |-> r.prompt, Stream |-> r.stream,
     Options |-> [max_tokens |-> r.max_tokens]]

\* What a call of an adapter comes to: its error, the round trips it made,
\* the adapters the call went through, and what the upstream did.
Outcome(err, sent, via, upstream) ==
    [err |-> err, sent |-> sent, via |-> via, upstream |-> upstream]

\* The error of a conversion, as an error value.
ErrorOf(e) == IF e = NoErr THEN NilError ELSE GoError("", <<e>>)

\* completionResponse: what the OpenAI upstream answers a completion with.
CompletionReplies ==
    [api : {"openai"}, id : {"cmpl_1"},
     choices : SeqsUpTo([text : BlockTexts, finish_reason : {"stop"}], 1)]

\* A completion response that takes a reply without choices for an empty text.
completionToUnifiedAllowingNone(r) == [text |-> <<>>, err |-> NoErr]

\* completionResponse.toUnified
completionToUnified(r) ==
    IF Len(r.choices) = 0
    THEN [text |-> <<>>, err |-> "openai completion response did not include choices"]
    ELSE [text |-> r.choices[1].text, err |-> NoErr]

\* The replies the round trips below draw from: none or one choice or block.
ShortOpenAIReplies == {r \in OpenAIReplies : Len(r.choices) <= 1}
ShortClaudeReplies == {r \in ClaudeReplies : Len(r.content) <= 1 /\ r.role = ""}

\* client.Do and what follows it: the request fails, the upstream answers
\* status >= 400 (parseAPIError), a body that does not decode (decodeJSON),
\* or a reply that toUnified converts.
RoundTripFailures(api) ==
    {Outcome(GoError("", <<api, " request failed">>), 1, <<api>>, "network failure"),
     Outcome(GoError("", <<api, " error status">>), 1, <<api>>, "error status"),
     Outcome(GoError("", <<"decode provider response">>), 1, <<api>>, "undecodable")}

\* openai.Provider.Chat
openaiChat(req) ==
    IF req.Stream
    THEN {Outcome(GoError("unsupported", <<"streaming is not yet supported for provider">>),
                  0, <<"openai">>, "")}
    ELSE IF \E i \in DOMAIN req.Messages : IsBlank(req.Messages[i].Content)
    THEN {Outcome(GoError("", <<"message content must not be empty">>), 0, <<"openai">>, "")}
    ELSE RoundTripFailures("openai")
         \cup {Outcome(ErrorOf(openaiToUnified(r).err), 1, <<"openai">>,
                       IF r.choices = <<>> THEN "no content" ELSE "reply") :
                  r \in ShortOpenAIReplies}

\* openai.Provider.Completion
openaiCompletion(req) ==
    IF req.Stream
    THEN {Outcome(GoError("unsupported", <<"streaming is not yet supported for provider">>),
                  0, <<"openai">>, "")}
    ELSE IF IsBlank(req.Prompt)
    THEN {Outcome(GoError("", <<"prompt must not be empty">>), 0, <<"openai">>, "")}
    ELSE RoundTripFailures("openai")
         \cup {Outcome(ErrorOf(completionToUnified(r).err), 1, <<"openai">>,
                       IF r.choices = <<>> THEN "no content" ELSE "reply") :
                  r \in CompletionReplies}

\* What a Claude reply holds: no content block, a block that is no text, or
\* text blocks only.
ClaudeReplyKind(r) ==
    IF r.content = <<>> THEN "no content"
    ELSE IF \E i \in DOMAIN r.content : r.content[i].Type # "text" THEN "unsupported block"
         ELSE "reply"

RECURSIVE FirstPayloadError(_, _)
\* The loop of buildMessagePayload: the first message it refuses.
FirstPayloadError(msgs, i) ==
    IF i > Len(msgs) THEN NilError
    ELSE IF msgs[i].Role \in {"user", "assistant"} /\ IsBlank(msgs[i].Content)
    THEN GoError("", <<"claude messages must not be empty">>)
    ELSE IF msgs[i].Role \notin {"system", "user", "assistant"}
    THEN GoError("", <<"claude provider does not support role ", msgs[i].Role>>)
    ELSE FirstPayloadError(msgs, i + 1)

IsConversation(m) == m.Role \in {"user", "assistant"}

\* buildMessagePayload: its error, nil when the payload is built.
buildMessagePayload(req) ==
    IF FirstPayloadError(req.Messages, 1) # NilError THEN FirstPayloadError(req.Messages, 1)
    ELSE IF SelectSeq(req.Messages, IsConversation) = <<>>
    THEN GoError("", <<"claude request requires at least one user message">>)
    ELSE IF SelectSeq(req.Messages, IsConversation)[1].Role # "user"
    THEN GoError("", <<"claude conversation must start with a user message">>)
    ELSE IF ~req.Options.max_tokens.set \/ req.Options.max_tokens.value <= 0
    THEN GoError("", <<"claude requests require a positive max_tokens value">>)
    ELSE NilError

\* A Claude adapter that does not look at the stream flag.
claudeChatSendingStreams(req) ==
    IF buildMessagePayload(req) # NilError
    THEN {Outcome(buildMessagePayload(req), 0, <<"claude">>, "")}
    ELSE RoundTripFailures("claude")
         \cup {Outcome(ErrorOf(claudeToUnified(r).err), 1, <<"claude">>,
                       ClaudeReplyKind(r)) :
                  r \in ShortClaudeReplies}

\* claude.Provider.Chat
claudeChat(req) ==
    IF req.Stream
    THEN {Outcome(GoError("unsupported", <<"streaming is not yet supported for provider">>),
                  0, <<"claude">>, "")}
    ELSE IF buildMessagePayload(req) # NilError
    THEN {Outcome(buildMessagePayload(req), 0, <<"claude">>, "")}
    ELSE RoundTripFailures("claude")
         \cup {Outcome(ErrorOf(claudeToUnified(r).err), 1, <<"claude">>,
                       ClaudeReplyKind(r)) :
                  r \in ShortClaudeReplies}

\* claude.Provider.Completion
claudeCompletion(req) ==
    {Outcome(GoError("unsupported", <<"completions are not supported by provider">>),
             0, <<"claude">>, "")}

\* nvidia.New, modelStyles: the api style of each id, the last declaration
\* of an id deciding.
modelStyles(models) ==
    [id \in {models[i].ID : i \in DOMAIN models} |->
        models[CHOOSE i \in DOMAIN models :
                  models[i].ID = id /\ \A j \in DOMAIN models : j > i => models[j].ID # id].APIStyle]

\* nvidia.New: the inner adapter of a style exists when a model has it.
HasAdapter(p, style) == \E i \in DOMAIN p.models : p.models[i].APIStyle = style

\* A composite adapter that hands every known model to its OpenAI adapter.
nvidiaChatAlwaysOpenAI(p, req) ==
    IF req.Model \notin DOMAIN modelStyles(p.models)
    THEN {Outcome(GoError("unknown model", <<"unknown model", ": ", req.Model>>), 0, <<>>, "")}
    ELSE openaiChat(req)

\* nvidia.Provider.Chat
nvidiaChat(p, req) ==
    IF req.Model \notin DOMAIN modelStyles(p.models)
    THEN {Outcome(GoError("unknown model", <<"unknown model", ": ", req.Model>>), 0, <<>>, "")}
    ELSE IF ~HasAdapter(p, modelStyles(p.models)[req.Model])
    THEN {Outcome(GoError("", <<"model ", req.Model, " adapter missing">>), 0, <<>>, "")}
    ELSE IF modelStyles(p.models)[req.Model] = "openai" THEN openaiChat(req)
    ELSE claudeChat(req)

\* nvidia.Provider.Completion
nvidiaCompletion(p, req) ==
    IF req.Model \notin DOMAIN modelStyles(p.models)
    THEN {Outcome(GoError("unknown model", <<"unknown model", ": ", req.Model>>), 0, <<>>, "")}
    ELSE IF modelStyles(p.models)[req.Model] = "openai"
    THEN IF ~HasAdapter(p, "openai")
         THEN {Outcome(GoError("", <<"model ", req.Model, " adapter missing">>), 0, <<>>, "")}
         ELSE openaiCompletion(req)
    ELSE {Outcome(GoError("unsupported",
                          <<"model ", req.Model, " uses claude api style">>), 0, <<>>, "")}

\* providerImpl.Chat and providerImpl.Completion, by the adapter registered.
providerChat(p, req) ==
    CASE p.name = "openai" -> openaiChat(req)
      [] p.name = "claude" -> claudeChat(req)
      [] OTHER -> nvidiaChat(p, req)

providerCompletion(p, req) ==
    CASE p.name = "openai" -> openaiCompletion(req)
      [] p.name = "claude" -> claudeCompletion(req)
      [] OTHER -> nvidiaCompletion(p, req)

NoIngress ==
    [pc |-> "idle", endpoint |-> "", body |-> NoBody,
     status |-> 0, type |-> "", message |-> <<>>, model |-> "", sent |-> 0, via |-> <<>>,
     called |-> FALSE, upstream |-> ""]

\* No adapter called on its own yet.
NoTrial ==
    [pc |-> "idle", models |-> <<>>, op |-> "", req |-> ToUnified(NoWireRequest),
     err |-> NilError, sent |-> 0, via |-> <<>>]

(***************************************************************************)
(* The translators' parsers of stop and system.                            *)
(***************************************************************************)
\* The texts a client writes into stop and system: sequences of a letter
\* and a space.
TextChars == {"a", " "}
Texts == SeqsUpTo(TextChars, MaxText)

RECURSIVE TrimLeft(_)
TrimLeft(t) == IF t # <<>> /\ Head(t) = " " THEN TrimLeft(Tail(t)) ELSE t

RECURSIVE TrimRight(_)
TrimRight(t) ==
    IF t # <<>> /\ t[Len(t)] = " " THEN TrimRight(SubSeq(t, 1, Len(t) - 1)) ELSE t

\* strings.TrimSpace
TrimSpace(t) == TrimRight(TrimLeft(t))

\* A parser's result: the texts and whether it returned an error.
Parsed(out, err) == [out |-> out, err |-> err]

\* parseStop on a JSON string s.
parseStopString(s) ==
    IF TrimSpace(s) = <<>> THEN Parsed(<<>>, "unsupported stop value")
    ELSE Parsed(<<s>>, NoErr)

\* parseStop on a JSON array of strings.
parseStopArray(multi) ==
    IF \E i \in DOMAIN multi : TrimSpace(multi[i]) = <<>>
    THEN Parsed(<<>>, "unsupported stop value")
    ELSE Parsed([i \in DOMAIN multi |-> TrimSpace(multi[i])], NoErr)

\* ChatCompletionRequest.UnmarshalJSON: what parseStop's result leaves in
\* Options under the key stop.
StopOption(p) ==
    [err |-> p.err, set |-> p.err = NoErr /\ p.out # <<>>,
     value |-> IF p.err = NoErr THEN p.out ELSE <<>>]

\* The texts of a sequence that are not empty.
NonEmpty(t) == t # <<>>

\* parseClaudeSystem on a JSON string.
parseSystemString(single) == Parsed(SelectSeq(<<TrimSpace(single)>>, NonEmpty), NoErr)

\* parseClaudeSystem on a JSON array of strings.
parseSystemList(multiple) ==
    Parsed(SelectSeq([i \in DOMAIN multiple |-> TrimSpace(multiple[i])], NonEmpty), NoErr)

\* A system block that keeps the spaces around its text.
extractSystemBlockUntrimmed(block) ==
    IF block.Type \notin {"", "text"} THEN Parsed(<<>>, "invalid system prompt")
    ELSE Parsed(block.Text, NoErr)

\* extractSystemBlock: the text of a block, trimmed.
extractSystemBlock(block) ==
    IF block.Type \notin {"", "text"} THEN Parsed(<<>>, "invalid system prompt")
    ELSE Parsed(TrimSpace(block.Text), NoErr)

\* parseClaudeSystem on one block {type, text} whose type is not empty.
parseSystemBlock(singleBlock) ==
    IF extractSystemBlock(singleBlock).err # NoErr
    THEN Parsed(<<>>, extractSystemBlock(singleBlock).err)
    ELSE Parsed(SelectSeq(<<extractSystemBlock(singleBlock).out>>, NonEmpty), NoErr)

\* parseClaudeSystem on a JSON array of blocks.
parseSystemBlocks(blocks) ==
    IF \E i \in DOMAIN blocks : extractSystemBlock(blocks[i]).err # NoErr
    THEN Parsed(<<>>, "invalid system prompt")
    ELSE Parsed(SelectSeq([i \in DOMAIN blocks |-> extractSystemBlock(blocks[i]).out],
                          NonEmpty), NoErr)

\* A text block of the wire.
TextBlock(t) == [Type |-> "text", Text |-> t]

\* strings.TrimSpace(systemMsg) != ""
NonBlank(t) == TrimSpace(t) # <<>>

\* ClaudeMessageRequest.ToUnified: the system messages the prompts become.
SystemMessages(prompts) ==
    LET kept == SelectSeq(prompts, NonBlank)
    IN  [i \in DOMAIN kept |-> [Role |-> "system", Content |-> kept[i]]]

RECURSIVE Join(_)
\* strings.Join(systemParts, "\n\n"); "LF" is a line feed.
Join(parts) ==
    IF parts = <<>> THEN <<>>
    ELSE IF Len(parts) = 1 THEN parts[1]
    ELSE parts[1] \o <<"LF", "LF">> \o Join(Tail(parts))

\* strings.TrimSpace(msg.Content) != ""
NonBlankContent(m) == TrimSpace(m.Content) # <<>>

\* buildMessagePayload: the system field built of the system messages.
SystemField(messages) ==
    LET systemParts == SelectSeq(messages, NonBlankContent)
    IN  Join([i \in DOMAIN systemParts |-> systemParts[i].Content])

(***************************************************************************)
(* The options bag, the dispatcher's copy of it and what an adapter can    *)
(* do to the copy.                                                         *)
(***************************************************************************)
\* Where the objects live: the caller's bag, the map the bag holds under
\* metadata, the dispatcher's copy. Nil is no object.
Nil == "nil"
CallerBag == "options"
MetadataMap == "metadata map"
CopiedBag == "out"

\* The values of a bag: numbers, and maps held by reference.
Number(n) == [kind |-> "number", v |-> n]
Ref(a) == [kind |-> "map", v |-> a]

\* The options bags a handler builds: max_tokens and metadata, each present
\* or not.
CallerBags ==
    {<<>>, "max_tokens" :> Number(16), "metadata" :> Ref(MetadataMap),
     ("max_tokens" :> Number(16)) @@ ("metadata" :> Ref(MetadataMap))}

\* The memory with the caller's bag in it.
Heap(bag) == (CallerBag :> bag) @@ (MetadataMap :> ("user" :> "u1"))

\* A dispatcher that hands on the caller's bag itself.
cloneOptionsSharing(heap, options) == [heap |-> heap, out |-> options]

\* cloneOptions: nil for an empty bag, else a new map with the same keys and
\* the same values.
cloneOptions(heap, options) ==
    IF DOMAIN heap[options] = {} THEN [heap |-> heap, out |-> Nil]
    ELSE [heap |-> (CopiedBag :> heap[options]) @@ heap, out |-> CopiedBag]

\* What a bag holds, with the maps in it read through: what the owner of the
\* bag sees.
Seen(heap, bag) ==
    [k \in DOMAIN heap[bag] |->
        IF heap[bag][k].kind = "map" THEN heap[heap[bag][k].v] ELSE heap[bag][k]]

\* The keys an adapter writes and the values it writes under them.
AdapterKeys == {"max_tokens", "metadata", "user", "stop"}

\* options[k] = v in the adapter: a key added or replaced.
SetKey(heap, bag, k, v) ==
    [heap EXCEPT ![bag] = (k :> v) @@ heap[bag]]

\* delete(options, k) in the adapter.
DeleteKey(heap, bag, k) ==
    [heap EXCEPT ![bag] = [j \in DOMAIN heap[bag] \ {k} |-> heap[bag][j]]]

\* options[k][f] = s in the adapter: a write into a map the bag holds.
SetInMap(heap, bag, k, f, s) ==
    [heap EXCEPT ![heap[bag][k].v] = (f :> s) @@ heap[heap[bag][k].v]]

(***************************************************************************)
(* State.                                                                  *)
(***************************************************************************)
VARIABLES
    \* A registry and its callers.
    registry,       \* the Registry: models (ids and aliases) and byName
    lastOp,         \* what the callers did last: "idle", "register", "lookup"
    lastCall,       \* the arguments of the RegisterProvider call just made
    lastErr,        \* the error the last call returned
    lookupFirst,    \* per key, the result of its first lookup since the callers returned
    lastLookup,     \* the latest LookupModel call and its result
    \* The serve command: config file, server, watcher, requests.
    file,           \* the config file: modification time and content
    overridePort,   \* the --port flag (0: not given)
    srvCfg,         \* Server.cfg
    srvRouter,      \* Server.router: the dispatcher (an identity and its registry)
    swaps,          \* how many dispatchers the watcher has handed to the server
    wpc,            \* watchConfigFile: "select", "load" or "exited"
    wModTime,       \* watchConfigFile: modTime of the running tick
    lastMod,        \* watchConfigFile: lastMod
    tick,           \* what the last tick logged
    ctxDone,        \* the serve context is cancelled
    reqs,           \* per request: handler position, request, dispatcher, outcome
    msgReq,         \* the /v1/messages request: handler position, reply, response
    ingress,        \* a request from its body to its response: what was sent upstream
    trial           \* an adapter called on its own: its configuration, request, outcome

regVars == <<registry, lastOp, lastCall, lastErr, lookupFirst, lastLookup>>
srvVars == <<file, overridePort, srvCfg, srvRouter, swaps, wpc, wModTime, lastMod, tick,
             ctxDone, reqs, msgReq, ingress, trial>>
vars == <<regVars, srvVars>>

NoCall == [p |-> NilProvider, aliases |-> <<>>]
NoLookup == [x |-> "", result |-> LookupModel(NewRegistry, "")]

(***************************************************************************)
(* The server: requests, dispatcher, watcher.                              *)
(***************************************************************************)
Reqs == 1..MaxRequests

\* router.New(registry); id tells one *Router from another.
Router(id, reg) == [id |-> id, registry |-> reg]

NoRouter == Router(-1, NewRegistry)
NoSeen == [provider |-> NilProvider, model |-> "", op |-> ""]

Idle == [pc |-> "idle", endpoint |-> "", model |-> "",
         held |-> NoRouter, found |-> ZeroModel, seen |-> NoSeen,
         status |-> 0, respModel |-> "", errType |-> "", cancelled |-> FALSE]

\* The server part of the state when no server runs.
ServerUnused ==
    /\ file = [mod |-> 0, content |-> "absent"]
    /\ overridePort = 0
    /\ srvCfg = ZeroConfig
    /\ srvRouter = NoRouter
    /\ swaps = 0
    /\ wpc = "exited"
    /\ wModTime = 0
    /\ lastMod = 0
    /\ tick = ""
    /\ ctxDone = FALSE
    /\ reqs = [r \in Reqs |-> Idle]
    /\ msgReq = NoMsgReq
    /\ ingress = NoIngress
    /\ trial = NoTrial

\* The registry part of the state when only the server runs.
RegistryUnused ==
    /\ registry = NewRegistry
    /\ lastOp = "idle"
    /\ lastCall = NoCall
    /\ lastErr = NoErr
    /\ lookupFirst = <<>>
    /\ lastLookup = NoLookup

InitRegistry ==
    /\ registry = NewRegistry
    /\ lastOp = "idle"
    /\ lastCall = NoCall
    /\ lastErr = NoErr
    /\ lookupFirst = <<>>
    /\ lastLookup = NoLookup
    /\ ServerUnused

\* A caller registers provider p with an alias map iterated in `order'. The
\* whole call runs under r.mu.Lock, so readers see it as one step.
DoRegisterProvider ==
    /\ lastOp = "idle"
    /\ \E p \in Providers, order \in AliasOrders :
        LET r == RegisterProvider(registry, p, order)
        IN  /\ registry' = r.reg
            /\ lastOp' = "register"
            /\ lastCall' = [p |-> p, aliases |-> order]
            /\ lastErr' = r.err
            /\ UNCHANGED <<lookupFirst, lastLookup, srvVars>>

\* A reader calls LookupModel(x) under r.mu.RLock; the first result per key
\* since the callers last returned is kept next to the latest one.
DoLookupModel ==
    /\ lastOp \in {"idle", "lookup"}
    /\ \E x \in Keys :
        LET r == LookupModel(registry, x)
        IN  /\ lastLookup' = [x |-> x, result |-> r]
            /\ lookupFirst' = IF x \in DOMAIN lookupFirst THEN lookupFirst
                              ELSE lookupFirst @@ (x :> r)
            /\ lastOp' = "lookup"
            /\ lastErr' = r.err
            /\ UNCHANGED <<registry, lastCall, srvVars>>

\* The callers take their results and return.
Return ==
    /\ lastOp # "idle"
    /\ lastOp' = "idle"
    /\ lastCall' = NoCall
    /\ lastErr' = NoErr
    /\ lookupFirst' = <<>>
    /\ lastLookup' = NoLookup
    /\ UNCHANGED <<registry, srvVars>>

NextRegistry == DoRegisterProvider \/ DoLookupModel \/ Return

SpecRegistry == InitRegistry /\ [][NextRegistry]_vars

(***************************************************************************)
(* The adapters, as far as the handlers can tell their outcomes apart.     *)
(***************************************************************************)
\* openai.Provider.Chat / Completion: a stream request is refused before any
\* round trip; otherwise the upstream answers or fails.
OpenAICall(stream) == IF stream THEN {"unsupported"} ELSE {"ok", "upstream error"}

\* claude.Provider.Chat / Completion.
ClaudeCall(op, stream) ==
    IF op = "completion" \/ stream THEN {"unsupported"} ELSE {"ok", "upstream error"}

\* nvidia.Provider.Chat / Completion: by the api_style of the model.
NvidiaCall(p, op, model, stream) ==
    IF \A i \in DOMAIN p.models : p.models[i].ID # model THEN {"unknown model"}
    ELSE LET style == (CHOOSE i \in DOMAIN p.models : p.models[i].ID = model)
         IN  IF p.models[style].APIStyle = "openai" THEN OpenAICall(stream)
             ELSE ClaudeCall(op, stream)

\* The outcomes of providerImpl.Chat / providerImpl.Completion.
ProviderCall(p, op, model, stream) ==
    CASE p.name = "openai" -> OpenAICall(stream)
      [] p.name = "claude" -> ClaudeCall(op, stream)
      [] OTHER -> NvidiaCall(p, op, model, stream)

\* toHTTPError: the status and error type of a dispatch error.
toHTTPError(err) ==
    IF err \in {"unknown model", "unsupported"}
    THEN [status |-> 400, type |-> "invalid_request_error"]
    ELSE [status |-> 502, type |-> "upstream_error"]

\* A dispatcher that hands the request's own model name to the adapter.
SanitiseKeepingName(reqModel, modelInfo) == reqModel

\* Router.Chat / Router.Completion: sanitisedReq.Model = modelInfo.ID
Sanitise(reqModel, modelInfo) == modelInfo.ID

(***************************************************************************)
(* serve: the state once the server is constructed and the watcher runs.   *)
(***************************************************************************)
StartupFile == "aliasToM1"
Flags == {0, 7070}

Init ==
    /\ RegistryUnused
    /\ overridePort \in Flags
    /\ file = [mod |-> 0, content |-> StartupFile]
    /\ srvCfg = IF overridePort # 0 THEN [Load(StartupFile).cfg EXCEPT !.port = overridePort]
                ELSE Load(StartupFile).cfg
    /\ \E b \in buildRouter(srvCfg) : b.err = NoErr /\ srvRouter = Router(0, b.reg)
    /\ swaps = 0
    /\ wpc = "select"
    /\ wModTime = 0
    /\ lastMod = 0
    /\ tick = ""
    /\ ctxDone = FALSE
    /\ reqs = [r \in Reqs |-> Idle]
    /\ msgReq = NoMsgReq
    /\ ingress = NoIngress
    /\ trial = NoTrial

\* The operator rewrites, replaces or removes the config file.
EditFile ==
    /\ file.mod < MaxEdits
    /\ \E c \in FileContents : file' = [mod |-> file.mod + 1, content |-> c]
    /\ UNCHANGED <<regVars, msgReq, ingress, trial, overridePort, srvCfg, srvRouter, swaps, wpc, wModTime, lastMod,
                   tick, ctxDone, reqs>>

\* SIGINT / SIGTERM: the serve context is cancelled.
Cancel ==
    /\ ~ctxDone
    /\ ctxDone' = TRUE
    /\ UNCHANGED <<regVars, msgReq, ingress, trial, file, overridePort, srvCfg, srvRouter, swaps, wpc, wModTime,
                   lastMod, tick, reqs>>

\* Server.UpdateRouting(cfg, rt): the new plane replaces the current one.
UpdateRouting(cfg, rt) ==
    /\ srvCfg' = cfg
    /\ srvRouter' = rt
    /\ swaps' = swaps + 1

\* A test that also lets through a file as old as the last one applied.
NotBefore(modTime, last) == modTime >= last

\* modTime.After(lastMod).
After(modTime, last) == modTime > last

\* watchConfigFile, case <-ticker.C, up to the modTime test.
TickStat ==
    /\ wpc = "select"
    /\ IF file.content = "absent"
       THEN /\ tick' = "config watcher stat failed"
            /\ UNCHANGED <<wpc, wModTime>>
       ELSE IF ~After(file.mod, lastMod)
            THEN /\ tick' = "not modified"
                 /\ UNCHANGED <<wpc, wModTime>>
            ELSE /\ tick' = tick
                 /\ wpc' = "load"
                 /\ wModTime' = file.mod
    /\ UNCHANGED <<regVars, msgReq, ingress, trial, file, overridePort, srvCfg, srvRouter, swaps, lastMod, ctxDone, reqs>>

\* watchConfigFile, the rest of the tick: Load, port override, buildRouter,
\* UpdateRouting, lastMod = modTime.
TickLoad ==
    /\ wpc = "load"
    /\ \E o \in Reload(file.content, overridePort) :
        /\ tick' = o.log
        /\ IF o.swap
           THEN /\ UpdateRouting(o.cfg, Router(swaps + 1, o.reg))
                /\ lastMod' = wModTime
           ELSE UNCHANGED <<srvCfg, srvRouter, swaps, lastMod>>
    /\ wpc' = "select"
    /\ UNCHANGED <<regVars, msgReq, ingress, trial, file, overridePort, wModTime, ctxDone, reqs>>

\* watchConfigFile, case <-ctx.Done().
WatcherExit ==
    /\ wpc = "select"
    /\ ctxDone
    /\ wpc' = "exited"
    /\ UNCHANGED <<regVars, msgReq, ingress, trial, file, overridePort, srvCfg, srvRouter, swaps, wModTime, lastMod,
                   tick, ctxDone, reqs>>

(***************************************************************************)
(* The handlers of /v1/chat/completions, /v1/completions and /v1/messages. *)
(***************************************************************************)
Endpoints == {"chat", "completions"}
RequestModels == {"alias-x", "m2", "unlisted"}

SetReq(r, v) == reqs' = [reqs EXCEPT ![r] = v]
ServerRest == <<regVars, msgReq, ingress, trial, file, overridePort, srvCfg, srvRouter, swaps, wpc, wModTime, lastMod,
                tick, ctxDone>>

\* The response is written: the handler returns and lets go of the router.
Answered(r, status, type, model) ==
    [Idle EXCEPT !.pc = "done", !.status = status, !.errType = type, !.respModel = model,
                 !.cancelled = reqs[r].cancelled]

\* handleChatCompletions / handleCompletions: decodeRequestBody and ToUnified
\* of a well-formed request without the stream flag.
Decode(r) ==
    /\ reqs[r].pc \in {"idle", "done"}
    /\ \E e \in Endpoints, m \in RequestModels :
        SetReq(r, [Idle EXCEPT !.pc = "decoded", !.endpoint = e, !.model = m])
    /\ UNCHANGED ServerRest

\* s.router.Chat(...) / s.router.Completion(...): the handler reads s.router.
ReadRouter(r) ==
    /\ reqs[r].pc = "decoded"
    /\ SetReq(r, [reqs[r] EXCEPT !.pc = "routed", !.held = srvRouter])
    /\ UNCHANGED ServerRest

\* The lookup and the sanitised request, from the registry reg.
Dispatch(r, reg) ==
    LET lk == LookupModel(reg, reqs[r].model)
    IN  IF lk.err # NoErr
        THEN SetReq(r, Answered(r, toHTTPError(lk.err).status, toHTTPError(lk.err).type, ""))
        ELSE SetReq(r, [reqs[r] EXCEPT
                !.pc = "calling",
                !.found = lk.model,
                !.seen = [provider |-> lk.provider,
                          model |-> Sanitise(reqs[r].model, lk.model),
                          op |-> IF reqs[r].endpoint = "completions" THEN "completion"
                                 ELSE "chat"]])

\* A dispatcher that goes back to the server's current router for the lookup.
RouterLookupRereading(r) ==
    /\ reqs[r].pc = "routed"
    /\ Dispatch(r, srvRouter.registry)
    /\ UNCHANGED ServerRest

\* Router.Chat / Router.Completion up to the adapter call: LookupModel in the
\* router's own registry, then the sanitised request.
RouterLookup(r) ==
    /\ reqs[r].pc = "routed"
    /\ Dispatch(r, reqs[r].held.registry)
    /\ UNCHANGED ServerRest

\* A request to the upstream that carries a context of its own, which
\* nothing cancels.
UpstreamContextDetached(cancelled) == FALSE

\* newRequest: http.NewRequestWithContext(ctx, ...) with the context of the
\* incoming request; the upstream call is cancelled when that one is.
UpstreamContext(cancelled) == cancelled

\* The adapter returns; the handler answers with modelInfo.ID as model. A
\* call whose context is cancelled does not return a response: client.Do
\* and the reading of the body fail with the context's error.
AdapterReturn(r) ==
    /\ reqs[r].pc = "calling"
    /\ \E out \in {o \in ProviderCall(reqs[r].seen.provider, reqs[r].seen.op,
                                       reqs[r].seen.model, FALSE) :
                      UpstreamContext(reqs[r].cancelled) => o # "ok"} :
        IF out = "ok"
        THEN SetReq(r, Answered(r, 200, "", reqs[r].found.ID))
        ELSE SetReq(r, Answered(r, toHTTPError(out).status, toHTTPError(out).type, ""))
    /\ UNCHANGED ServerRest

Handle(r) == Decode(r) \/ ReadRouter(r) \/ RouterLookup(r) \/ AdapterReturn(r)

Next ==
    \/ EditFile
    \/ Cancel
    \/ TickStat
    \/ TickLoad
    \/ WatcherExit
    \/ \E r \in Reqs : Handle(r)

Spec == Init /\ [][Next]_vars

(***************************************************************************)
(* POST /v1/messages: handleClaudeMessages and writeClaudeStream.          *)
(***************************************************************************)
StreamFile == "aliasToM2"
MessageModels == {"alias-x", "m1", "unlisted"}

\* The server is constructed on the plane built from StreamFile; no watcher
\* runs.
InitStream ==
    /\ RegistryUnused
    /\ file = [mod |-> 0, content |-> StreamFile]
    /\ overridePort = 0
    /\ srvCfg = Load(StreamFile).cfg
    /\ \E b \in buildRouter(srvCfg) : b.err = NoErr /\ srvRouter = Router(0, b.reg)
    /\ swaps = 0
    /\ wpc = "exited"
    /\ wModTime = 0
    /\ lastMod = 0
    /\ tick = ""
    /\ ctxDone = FALSE
    /\ reqs = [r \in Reqs |-> Idle]
    /\ msgReq = NoMsgReq
    /\ ingress = NoIngress
    /\ trial = NoTrial

StreamRest == <<regVars, ingress, trial, file, overridePort, srvCfg, srvRouter, swaps, wpc, wModTime, lastMod,
                tick, ctxDone, reqs>>

\* handleClaudeMessages: decodeRequestBody of a well-formed request;
\* requestedStream is req.Stream, and the writer can flush or cannot.
DecodeMessages ==
    /\ msgReq.pc \in {"idle", "done"}
    /\ \E m \in MessageModels, s \in BOOLEAN, f \in BOOLEAN :
        msgReq' = [NoMsgReq EXCEPT !.pc = "decoded", !.model = m, !.requestedStream = s,
                                   !.canFlush = f]
    /\ UNCHANGED StreamRest

\* The client goes away, or the server shuts down: the request's context is
\* cancelled while the handler runs.
CancelRequest ==
    /\ msgReq.pc \notin {"idle", "done"}
    /\ ~msgReq.cancelled
    /\ msgReq' = [msgReq EXCEPT !.cancelled = TRUE]
    /\ UNCHANGED StreamRest

\* s.router.Chat(ctx, unifiedReq) with unifiedReq.Stream = false: the lookup,
\* the adapter call (a round trip under a cancelled context fails),
\* toHTTPError of an error.
RouterChat ==
    /\ msgReq.pc = "decoded"
    /\ LET lk == LookupModel(srvRouter.registry, msgReq.model)
       IN  IF lk.err # NoErr
           THEN msgReq' = [msgReq EXCEPT
                    !.pc = "failed",
                    !.err = requestError(toHTTPError(lk.err).status, toHTTPError(lk.err).type)]
           ELSE \E out \in {o \in Chat(lk.provider) : msgReq.cancelled => o.reply = NoReply} :
                  IF out.err # NoErr
                  THEN msgReq' = [msgReq EXCEPT
                          !.pc = "failed", !.reply = out.reply,
                          !.err = requestError(toHTTPError(out.err).status,
                                               toHTTPError(out.err).type)]
                  ELSE msgReq' = [msgReq EXCEPT
                          !.pc = "dispatched", !.reply = out.reply, !.resp = out.resp,
                          !.modelID = Sanitise(msgReq.model, lk.model)]
    /\ UNCHANGED StreamRest

\* handleClaudeMessages without stream: c.JSON(200, FromUnifiedClaude(...)).
RespondJSON ==
    /\ msgReq.pc = "dispatched"
    /\ ~msgReq.requestedStream
    /\ msgReq' = [msgReq EXCEPT
            !.pc = "done", !.status = 200, !.contentType = "application/json",
            !.body = <<JSONBody("message", msgReq.resp.Content)>>]
    /\ UNCHANGED StreamRest

\* A flusher test made after the headers are out.
NoFlusherAfterHeaders ==
    /\ msgReq.pc = "dispatched"
    /\ msgReq.requestedStream
    /\ ~msgReq.canFlush
    /\ msgReq' = [msgReq EXCEPT !.pc = "failed", !.status = 200,
                                !.contentType = "text/event-stream",
                                !.err = requestError(500, "server_error")]
    /\ UNCHANGED StreamRest

\* writeClaudeStream: the writer is no http.Flusher.
NoFlusher ==
    /\ msgReq.pc = "dispatched"
    /\ msgReq.requestedStream
    /\ ~msgReq.canFlush
    /\ msgReq' = [msgReq EXCEPT !.pc = "failed", !.err = requestError(500, "server_error")]
    /\ UNCHANGED StreamRest

\* writeClaudeStream: the three headers and WriteHeader(200).
StreamHeaders ==
    /\ msgReq.pc = "dispatched"
    /\ msgReq.requestedStream
    /\ msgReq.canFlush
    /\ msgReq' = [msgReq EXCEPT !.pc = "name", !.k = 1, !.status = 200,
                                !.contentType = "text/event-stream"]
    /\ UNCHANGED StreamRest

\* writeSSEEvent of event k: the Fprintf of the event name.
WriteEventName ==
    /\ msgReq.pc = "name"
    /\ \E o \in WriteOutcomes :
        LET ev == ClaudeEvents(msgReq.modelID, msgReq.resp)[msgReq.k]
        IN  msgReq' = [msgReq EXCEPT
                !.body = Write(msgReq.body, EventLine(ev.name), o),
                !.pc = IF o = "written" THEN "data" ELSE "failed",
                !.err = IF o = "written" THEN NoError ELSE PlainError,
                !.writeFailed = (o # "written")]
    /\ UNCHANGED StreamRest

\* writeSSEEvent of event k: the Fprintf of the data line.
WriteEventData ==
    /\ msgReq.pc = "data"
    /\ \E o \in WriteOutcomes :
        LET ev == ClaudeEvents(msgReq.modelID, msgReq.resp)[msgReq.k]
        IN  msgReq' = [msgReq EXCEPT
                !.body = Write(msgReq.body, DataLine(Marshal(ev.payload)), o),
                !.pc = IF o = "written" THEN "flush" ELSE "failed",
                !.err = IF o = "written" THEN NoError ELSE PlainError,
                !.writeFailed = (o # "written")]
    /\ UNCHANGED StreamRest

\* flusher.Flush() after event k, then the next event or return nil.
Flush ==
    /\ msgReq.pc = "flush"
    /\ msgReq' = [msgReq EXCEPT
            !.flushed = Len(msgReq.body),
            !.flushes = msgReq.flushes + 1,
            !.k = IF msgReq.k = Len(ClaudeEvents(msgReq.modelID, msgReq.resp)) THEN 0
                  ELSE msgReq.k + 1,
            !.pc = IF msgReq.k = Len(ClaudeEvents(msgReq.modelID, msgReq.resp)) THEN "done"
                   ELSE "name"]
    /\ UNCHANGED StreamRest

\* The handler returned an error: openAIErrorHandler writes the envelope with
\* c.JSON. On a response whose header is out, the status stays and the
\* envelope goes to the body if the Write succeeds.
ErrorHandler ==
    /\ msgReq.pc = "failed"
    /\ LET env == openAIErrorHandler(msgReq.err)
       IN  IF msgReq.status = 0
           THEN msgReq' = [msgReq EXCEPT
                    !.pc = "done", !.status = env.Status, !.contentType = "application/json",
                    !.body = <<JSONBody(env.Type, <<>>)>>]
           ELSE \E o \in WriteOutcomes :
                  msgReq' = [msgReq EXCEPT
                    !.pc = "done",
                    !.body = Write(msgReq.body, JSONBody(env.Type, <<>>), o)]
    /\ UNCHANGED StreamRest

NextStream ==
    \/ DecodeMessages
    \/ CancelRequest
    \/ RouterChat
    \/ RespondJSON
    \/ NoFlusher
    \/ StreamHeaders
    \/ WriteEventName
    \/ WriteEventData
    \/ Flush
    \/ ErrorHandler

SpecStream == InitStream /\ [][NextStream]_vars

(***************************************************************************)
(* A request from its body to its response, on a plane with the three      *)
(* providers.                                                              *)
(***************************************************************************)
NvidiaModels == <<ModelConfig("n1", "openai"), ModelConfig("n2", "claude")>>

IngressConfig ==
    Config(8080, Upstream(OpenAIModels, <<>>), Upstream(ClaudeModels, "alias-x" :> "m2"),
           Upstream(NvidiaModels, <<>>))

InitIngress ==
    /\ RegistryUnused
    /\ file = [mod |-> 0, content |-> "absent"]
    /\ overridePort = 0
    /\ srvCfg = IngressConfig
    /\ \E b \in buildRouter(srvCfg) : b.err = NoErr /\ srvRouter = Router(0, b.reg)
    /\ swaps = 0
    /\ wpc = "exited"
    /\ wModTime = 0
    /\ lastMod = 0
    /\ tick = ""
    /\ ctxDone = FALSE
    /\ reqs = [r \in Reqs |-> Idle]
    /\ msgReq = NoMsgReq
    /\ ingress = NoIngress
    /\ trial = NoTrial

IngressRest == <<regVars, msgReq, trial, file, overridePort, srvCfg, srvRouter, swaps, wpc,
                 wModTime, lastMod, tick, ctxDone, reqs>>

\* A handler of /v1/messages that passes the stream flag on.
CanonicalKeepingStream(endpoint, r) == ToUnified(r)

\* The request the handler hands to the dispatcher: handleClaudeMessages
\* clears the stream flag, the other two handlers pass it on.
Canonical(endpoint, r) ==
    IF endpoint = "/v1/messages" THEN [ToUnified(r) EXCEPT !.Stream = FALSE] ELSE ToUnified(r)

\* toHTTPError: the message of the requestError it returns.
toHTTPErrorMessage(err) ==
    IF err.wraps \in {"unknown model", "unsupported"} THEN err.text
    ELSE <<"upstream provider error">>

\* Router.Chat and Router.Completion: LookupModel, the model id put into the
\* request, the adapter, its error wrapped.
Dispatched(reg, op, req) ==
    LET lk == LookupModel(reg, req.Model)
        sanitisedReq == [req EXCEPT !.Model = Sanitise(req.Model, lk.model)]
        outs == IF op = "chat" THEN providerChat(lk.provider, sanitisedReq)
                ELSE providerCompletion(lk.provider, sanitisedReq)
    IN  IF lk.err # NoErr
        THEN {[out |-> Outcome(GoError(lk.err, <<lk.err, ": ", req.Model>>), 0, <<>>, ""),
               model |-> ZeroModel, called |-> FALSE]}
        ELSE {[out |-> IF o.err = NilError THEN o
                       ELSE [o EXCEPT !.err.text =
                                <<"provider ", lk.provider.name, " ", op, " request: ">> \o @],
               model |-> lk.model, called |-> TRUE] : o \in outs}

\* The handler reads the body; a body decodeRequestBody refuses is answered
\* by the error handler.
IngressDecode ==
    /\ ingress.pc = "idle"
    /\ \E e \in IngressEndpoints : \E b \in Bodies(e) :
          LET d == decodeRequestBody(e, b)
          IN  ingress' = IF d # NoHTTPError
                         THEN [NoIngress EXCEPT !.pc = "done", !.endpoint = e, !.body = b,
                                                !.status = d.status, !.type = d.type,
                                                !.message = d.message]
                         ELSE [NoIngress EXCEPT !.pc = "decoded", !.endpoint = e, !.body = b]
    /\ UNCHANGED IngressRest

\* handleChatCompletions, handleCompletions, handleClaudeMessages after the
\* body: the dispatcher, then toHTTPError or the response.
IngressRoute ==
    /\ ingress.pc = "decoded"
    /\ \E d \in Dispatched(srvRouter.registry,
                           IF ingress.endpoint = "/v1/completions" THEN "completion" ELSE "chat",
                           Canonical(ingress.endpoint, ingress.body.req)) :
          ingress' = IF d.out.err # NilError
                     THEN [ingress EXCEPT
                             !.pc = "done", !.status = toHTTPError(d.out.err.wraps).status,
                             !.type = toHTTPError(d.out.err.wraps).type,
                             !.message = toHTTPErrorMessage(d.out.err),
                             !.sent = d.out.sent, !.via = d.out.via, !.called = d.called,
                             !.upstream = d.out.upstream]
                     ELSE [ingress EXCEPT
                             !.pc = "done", !.status = 200, !.model = d.model.ID,
                             !.sent = d.out.sent, !.via = d.out.via, !.called = d.called,
                             !.upstream = d.out.upstream]
    /\ UNCHANGED IngressRest

\* The response is out; the next request.
IngressReturn ==
    /\ ingress.pc = "done"
    /\ ingress' = NoIngress
    /\ UNCHANGED IngressRest

NextIngress ==
    \/ IngressDecode
    \/ IngressRoute
    \/ IngressReturn

SpecIngress == InitIngress /\ [][NextIngress]_vars

(***************************************************************************)
(* The NVIDIA composite adapter on its own.                                *)
(***************************************************************************)
\* The model lists of an nvidia provider section: an id may be declared
\* more than once.
NvidiaModelLists ==
    SeqsUpTo({ModelConfig(id, style) : id \in {"n1", "n2"}, style \in {"openai", "claude"}},
             MaxModels)

\* The canonical requests the adapter is called with.
TrialRequests ==
    {ToUnified([model |-> m, messages |-> <<[Role |-> "user", Content |-> "hi"]>>,
                prompt |-> "hi", stream |-> s, max_tokens |-> [set |-> TRUE, value |-> 16]]) :
        m \in {"n1", "n2", "unlisted"}, s \in BOOLEAN}

InitNvidia ==
    /\ RegistryUnused
    /\ ServerUnused

TrialRest == <<regVars, msgReq, ingress, file, overridePort, srvCfg, srvRouter, swaps, wpc,
               wModTime, lastMod, tick, ctxDone, reqs>>

\* nvidia.New on a provider section, then Chat on the adapter.
TrialChat ==
    /\ trial.pc = "idle"
    /\ \E l \in NvidiaModelLists, r \in TrialRequests :
          LET made == NewNvidia("nvidia", Upstream(l, <<>>))
          IN  /\ made.err = NoErr
              /\ \E o \in nvidiaChat(made.p, r) :
                    trial' = [pc |-> "done", models |-> made.p.models, op |-> "chat", req |-> r,
                              err |-> o.err, sent |-> o.sent, via |-> o.via]
    /\ UNCHANGED TrialRest

\* nvidia.New on a provider section, then Completion on the adapter.
TrialCompletion ==
    /\ trial.pc = "idle"
    /\ \E l \in NvidiaModelLists, r \in TrialRequests :
          LET made == NewNvidia("nvidia", Upstream(l, <<>>))
          IN  /\ made.err = NoErr
              /\ \E o \in nvidiaCompletion(made.p, r) :
                    trial' = [pc |-> "done", models |-> made.p.models, op |-> "completion",
                              req |-> r, err |-> o.err, sent |-> o.sent, via |-> o.via]
    /\ UNCHANGED TrialRest

\* The call returned; the next one.
TrialReturn ==
    /\ trial.pc = "done"
    /\ trial' = NoTrial
    /\ UNCHANGED TrialRest

NextNvidia ==
    \/ TrialChat
    \/ TrialCompletion
    \/ TrialReturn

SpecNvidia == InitNvidia /\ [][NextNvidia]_vars

(***************************************************************************)
(* The parsers of stop and system on their own.                            *)
(***************************************************************************)
\* parseStop on "stop": s and on "stop": [s].
TrialParseStop ==
    /\ trial.pc = "idle"
    /\ \E s \in Texts :
          trial' = [pc |-> "done", op |-> "parseStop", s |-> s,
                    single |-> StopOption(parseStopString(s)),
                    multi |-> StopOption(parseStopArray(<<s>>))]
    /\ UNCHANGED TrialRest

\* The system prompt as the Claude adapter sends it: parseClaudeSystem,
\* ToUnified, buildMessagePayload.
Normalized(p) ==
    [err |-> p.err, messages |-> SystemMessages(p.out),
     system |-> SystemField(SystemMessages(p.out))]

\* parseClaudeSystem on the same texts in each shape that can hold them: a
\* list of strings and a list of blocks, and for one text a string and a
\* block too (for another number of texts the list stands in for these).
TrialParseSystem ==
    /\ trial.pc = "idle"
    /\ \E ts \in SeqsUpTo(Texts, MaxTexts) :
          trial' = [pc |-> "done", op |-> "parseClaudeSystem", texts |-> ts,
                    list |-> Normalized(parseSystemList(ts)),
                    blocks |-> Normalized(parseSystemBlocks([i \in DOMAIN ts |->
                                                               TextBlock(ts[i])])),
                    string |-> IF Len(ts) = 1 THEN Normalized(parseSystemString(ts[1]))
                               ELSE Normalized(parseSystemList(ts)),
                    block |-> IF Len(ts) = 1 THEN Normalized(parseSystemBlock(TextBlock(ts[1])))
                              ELSE Normalized(parseSystemList(ts))]
    /\ UNCHANGED TrialRest

NextTranslator ==
    \/ TrialParseStop
    \/ TrialParseSystem
    \/ TrialReturn

SpecTranslator == InitNvidia /\ [][NextTranslator]_vars

(***************************************************************************)
(* Router.Chat up to the adapter call, and an adapter that writes to the   *)
(* options it received.                                                    *)
(***************************************************************************)
\* Router.Chat: sanitisedReq.Options = cloneOptions(req.Options).
TrialClone ==
    /\ trial.pc = "idle"
    /\ \E bag \in CallerBags :
          LET c == cloneOptions(Heap(bag), CallerBag)
          IN  trial' = [pc |-> "cloned", op |-> "cloneOptions", heap |-> c.heap,
                        adapter |-> c.out, writes |-> 0, last |-> "clone"]
    /\ UNCHANGED TrialRest

\* The adapter adds or replaces a key of the bag it received.
AdapterSetsKey ==
    /\ trial.pc = "cloned"
    /\ trial.adapter # Nil
    /\ trial.writes < MaxWrites
    /\ \E k \in AdapterKeys :
          trial' = [trial EXCEPT !.heap = SetKey(trial.heap, trial.adapter, k, Number(99)),
                                 !.writes = @ + 1, !.last = "set key"]
    /\ UNCHANGED TrialRest

\* The adapter removes a key of the bag it received.
AdapterDeletesKey ==
    /\ trial.pc = "cloned"
    /\ trial.adapter # Nil
    /\ trial.writes < MaxWrites
    /\ \E k \in DOMAIN trial.heap[trial.adapter] :
          trial' = [trial EXCEPT !.heap = DeleteKey(trial.heap, trial.adapter, k),
                                 !.writes = @ + 1, !.last = "delete key"]
    /\ UNCHANGED TrialRest

\* The adapter writes into a map it reached through the bag.
AdapterWritesInMap ==
    /\ trial.pc = "cloned"
    /\ trial.adapter # Nil
    /\ trial.writes < MaxWrites
    /\ \E k \in DOMAIN trial.heap[trial.adapter] :
          /\ trial.heap[trial.adapter][k].kind = "map"
          /\ \E f \in {"user", "team"} :
                trial' = [trial EXCEPT
                            !.heap = SetInMap(trial.heap, trial.adapter, k, f, "u2"),
                            !.writes = @ + 1, !.last = "write in map"]
    /\ UNCHANGED TrialRest

\* The adapter returned; the next request.
TrialDone ==
    /\ trial.pc = "cloned"
    /\ trial' = NoTrial
    /\ UNCHANGED TrialRest

NextOptions ==
    \/ TrialClone
    \/ AdapterSetsKey
    \/ AdapterDeletesKey
    \/ AdapterWritesInMap
    \/ TrialDone

SpecOptions == InitNvidia /\ [][NextOptions]_vars

(***************************************************************************)
(* serve from its flags to the running server, and the first requests.     *)
(***************************************************************************)
StartupFlags == Flags \cup {70000}
StartupModels == {"claude-3.5-sonnet", "moonshotai/kimi-k2.5", "alias-x", "m1", "unlisted"}

\* Before serve: a config file on disk, the --port flag, no server.
InitStartup ==
    /\ RegistryUnused
    /\ \E c \in ConfigFiles \cup {"absent"} : file = [mod |-> 0, content |-> c]
    /\ overridePort \in StartupFlags
    /\ srvCfg = ZeroConfig
    /\ srvRouter = NoRouter
    /\ swaps = 0
    /\ wpc = "exited"
    /\ wModTime = 0
    /\ lastMod = 0
    /\ tick = ""
    /\ ctxDone = FALSE
    /\ reqs = [r \in Reqs |-> Idle]
    /\ msgReq = NoMsgReq
    /\ ingress = NoIngress
    /\ trial = NoTrial

\* serve: Load, the port override, buildRouter, server.New; the first error
\* is returned and no server runs.
Serve ==
    /\ tick = ""
    /\ LET loaded == Load(file.content)
           cfg == IF overridePort # 0 THEN [loaded.cfg EXCEPT !.port = overridePort]
                  ELSE loaded.cfg
       IN  IF loaded.err # NoErr
           THEN tick' = loaded.err /\ UNCHANGED <<srvCfg, srvRouter>>
           ELSE IF overridePort # 0 /\ (overridePort <= 0 \/ overridePort > MaxPort)
           THEN tick' = "port override must be a valid TCP port" /\ UNCHANGED <<srvCfg, srvRouter>>
           ELSE \E b \in buildRouter(cfg) :
                  IF b.err # NoErr
                  THEN tick' = b.err /\ UNCHANGED <<srvCfg, srvRouter>>
                  ELSE /\ tick' = "serving"
                       /\ srvCfg' = cfg
                       /\ srvRouter' = Router(0, b.reg)
    /\ UNCHANGED <<regVars, msgReq, ingress, trial, file, overridePort, swaps, wpc, wModTime,
                   lastMod, ctxDone, reqs>>

\* A request to the running server: decodeRequestBody and ToUnified of a
\* well-formed request without the stream flag.
DecodeServed(r) ==
    /\ tick = "serving"
    /\ reqs[r].pc \in {"idle", "done"}
    /\ \E e \in Endpoints, m \in StartupModels :
        SetReq(r, [Idle EXCEPT !.pc = "decoded", !.endpoint = e, !.model = m])
    /\ UNCHANGED ServerRest

\* The client goes away while the adapter waits for the upstream: the
\* context of the request is cancelled.
CancelServed(r) ==
    /\ reqs[r].pc = "calling"
    /\ ~reqs[r].cancelled
    /\ SetReq(r, [reqs[r] EXCEPT !.cancelled = TRUE])
    /\ UNCHANGED ServerRest

NextStartup ==
    \/ Serve
    \/ \E r \in Reqs : \/ DecodeServed(r)
                        \/ ReadRouter(r)
                        \/ RouterLookup(r)
                        \/ CancelServed(r)
                        \/ AdapterReturn(r)

SpecStartup == InitStartup /\ [][NextStartup]_vars

(***************************************************************************)
(* The watcher alone, with a file that is rewritten once more while a tick *)
(* is between its stat and its load.                                       *)
(***************************************************************************)
\* The operator rewrites the file after the tick's os.Stat and before its
\* config.Load.
RewriteDuringTick ==
    /\ wpc = "load"
    /\ file.mod < MaxEdits + MaxRewrites
    /\ \E c \in FileContents : file' = [mod |-> file.mod + 1, content |-> c]
    /\ UNCHANGED <<regVars, msgReq, ingress, trial, overridePort, srvCfg, srvRouter, swaps, wpc, wModTime, lastMod,
                   tick, ctxDone, reqs>>

NextWatcher ==
    \/ EditFile
    \/ RewriteDuringTick
    \/ TickStat
    \/ TickLoad

SpecWatcher == Init /\ [][NextWatcher]_vars

(***************************************************************************)
(* Properties of the registry.                                             *)
(***************************************************************************)
\* The ids a provider lists.
ListedIds(p) == {p.models[i].ID : i \in DOMAIN p.models}

\* The step is a RegisterProvider call.
Registered == lastOp = "idle" /\ lastOp' = "register"

\* Every entry of the table before the step is still there, unchanged.
EntriesKept ==
    \A k \in DOMAIN registry.models :
        k \in DOMAIN registry'.models /\ registry'.models[k] = registry.models[k]

\* C1: a RegisterProvider call that returns an error leaves the model/alias
\* table and the provider-name table as they were before the call.
C1_FailedRegistrationIsAtomic ==
    [][(Registered /\ lastErr' # NoErr) => registry' = registry]_vars

\* C6 as stated: a registration that lists a model id already in the table
\* fails with the duplicate-model error and overwrites no entry.
C6_ListedDuplicateIsDuplicateModelError ==
    [][(Registered /\ ListedIds(lastCall'.p) \cap DOMAIN registry.models # {})
         => (lastErr' = ErrDuplicateModel /\ EntriesKept)]_vars

\* C6 amended: a registration that lists a model id already in the table
\* fails and overwrites no entry; the error is the duplicate-model error
\* unless the provider's name is already registered, and then it is the
\* provider-already-registered error; every id of the table belongs to the
\* one adapter registered under the id's provider name.
C6_ListedDuplicateFails ==
    /\ [](\A k \in DOMAIN registry.models :
            /\ registry.models[k].model.Provider = registry.models[k].provider.name
            /\ registry.models[k].provider.name \in DOMAIN registry.byName
            /\ registry.byName[registry.models[k].provider.name] = registry.models[k].provider)
    /\ [][(Registered /\ ListedIds(lastCall'.p) \cap DOMAIN registry.models # {})
            => /\ lastErr' = IF lastCall'.p.name \in DOMAIN registry.byName
                             THEN ErrProviderRegistered ELSE ErrDuplicateModel
               /\ EntriesKept]_vars

C6_Witness ==
    /\ lastOp = "register"
    /\ lastErr = ErrDuplicateModel
    /\ \E k \in ListedIds(lastCall.p) :
        k \in DOMAIN registry.models /\ registry.models[k].provider # lastCall.p

TargetsAt(reg, call, i) ==
    DOMAIN reg.models \cup ListedIds(call.p) \cup {call.aliases[j][1] : j \in 1..(i - 1)}

\* C8: a registration with an alias whose target is not in the table when
\* the alias is reached fails; after a successful registration every alias
\* of the call looks up to the same (descriptor, adapter) as its target.
C8_AliasResolvesLikeTarget ==
    [][Registered =>
        /\ (\A i \in DOMAIN lastCall'.aliases :
              lastCall'.aliases[i][2] \notin TargetsAt(registry, lastCall', i)
                => lastErr' # NoErr)
        /\ (lastErr' = NoErr =>
              \A i \in DOMAIN lastCall'.aliases :
                /\ LookupModel(registry', lastCall'.aliases[i][1]).err = NoErr
                /\ LookupModel(registry', lastCall'.aliases[i][1])
                     = LookupModel(registry', lastCall'.aliases[i][2]))]_vars

C8_Witness ==
    /\ lastOp = "register"
    /\ lastErr = NoErr
    /\ Len(lastCall.aliases) = 2
    /\ lastCall.aliases[2][2] = lastCall.aliases[1][1]
    /\ LookupModel(registry, lastCall.aliases[2][1]).model.ID = lastCall.aliases[1][2]

\* C9: with no registration in between, a lookup of x returns what the first
\* lookup of x returned; a key of the table yields its entry and no error, any
\* other key the unknown-model error, the zero descriptor and no adapter.
C9_LookupIsStable ==
    lastOp = "lookup" =>
        /\ lastLookup.x \in DOMAIN lookupFirst
        /\ lookupFirst[lastLookup.x] = lastLookup.result
        /\ IF lastLookup.x \in DOMAIN registry.models
           THEN /\ lastLookup.result.err = NoErr
                /\ lastLookup.result.provider # NilProvider
                /\ lastLookup.result.provider = registry.models[lastLookup.x].provider
                /\ lastLookup.result.model = registry.models[lastLookup.x].model
           ELSE /\ lastLookup.result.err = ErrUnknownModel
                /\ lastLookup.result.provider = NilProvider
                /\ lastLookup.result.model = ZeroModel

C9_Witness ==
    /\ lastOp = "lookup"
    /\ Cardinality(DOMAIN lookupFirst) >= 2
    /\ \E x \in DOMAIN lookupFirst : lookupFirst[x].err = ErrUnknownModel
    /\ \E x \in DOMAIN lookupFirst :
        lookupFirst[x].err = NoErr /\ lookupFirst[x].model.ID # x

(***************************************************************************)
(* Properties of the server: dispatch and hot reload.                      *)
(***************************************************************************)
\* The registries buildRouter returns without error, over all config files.
BuiltRegistries ==
    UNION {{b.reg : b \in {o \in buildRouter(Load(c).cfg) : o.err = NoErr}} :
             c \in {f \in YamlFiles : Load(f).err = NoErr}}

InFlight == {"routed", "calling"}

\* C2: a request holds one dispatcher from the moment it reads s.router to
\* its answer, whatever swaps happen meanwhile: the dispatcher is a whole one
\* the server has published, it does not change while the request is in
\* flight, and the lookup and the adapter call are made against its registry.
C2_RequestKeepsItsDispatcher ==
    /\ [](\A r \in Reqs : reqs[r].pc \in InFlight =>
            /\ reqs[r].held.registry \in BuiltRegistries
            /\ reqs[r].held.id <= srvRouter.id
            /\ (reqs[r].held.id = srvRouter.id => reqs[r].held = srvRouter))
    /\ [](\A r \in Reqs : reqs[r].pc = "calling" =>
            /\ LookupModel(reqs[r].held.registry, reqs[r].model).err = NoErr
            /\ reqs[r].seen.provider = LookupModel(reqs[r].held.registry, reqs[r].model).provider
            /\ reqs[r].found = LookupModel(reqs[r].held.registry, reqs[r].model).model)
    /\ [][\A r \in Reqs :
            /\ (reqs[r].pc \in InFlight /\ reqs'[r].pc \in InFlight)
                 => reqs'[r].held = reqs[r].held
            /\ (reqs[r].pc = "routed" /\ reqs'[r].pc = "done")
                 => LookupModel(reqs[r].held.registry, reqs[r].model).err = ErrUnknownModel]_vars

C2_Witness ==
    \E r \in Reqs :
        /\ reqs[r].pc = "calling"
        /\ reqs[r].model = "alias-x"
        /\ reqs[r].held.id < srvRouter.id
        /\ reqs[r].seen.model = "m1"
        /\ LookupModel(srvRouter.registry, "alias-x").model.ID = "m2"

\* The step is the end of a tick that loaded the changed file.
TickEnds == wpc = "load" /\ wpc' = "select"

\* C3: a tick whose load, validation or build fails performs no swap: the
\* server's dispatcher and configuration are what they were, no request is
\* touched, and the registry the server dispatches on is always one whose
\* build succeeded.
C3_FailedReloadKeepsPlane ==
    /\ [](srvRouter.registry \in BuiltRegistries)
    /\ [][(TickEnds /\ tick' \in {"config reload failed", "provider rebuild failed"})
            => (srvRouter' = srvRouter /\ srvCfg' = srvCfg /\ reqs' = reqs)]_vars

C3_Witness ==
    /\ tick = "provider rebuild failed"
    /\ file.content = "aliasOfModel"
    /\ wpc = "select"
    /\ srvRouter.id = 0
    /\ \E r \in Reqs : reqs[r].pc = "done" /\ reqs[r].status = 200

\* C4: with a --port override p, the configuration the server holds carries
\* port p at startup and after every reload.
C4_PortOverrideSticks ==
    overridePort # 0 => srvCfg.port = overridePort

C4_Witness ==
    /\ overridePort # 0
    /\ tick = "configuration reloaded"
    /\ srvRouter.id > 0
    /\ file.content \in YamlFiles
    /\ FileConfig(file.content).port \notin {0, overridePort}
    /\ srvCfg.openai = FileConfig(file.content).openai

\* C5: the request the dispatcher hands to the adapter carries the id of the
\* resolved descriptor, which is registered under that very id (it is no
\* alias key) and is the descriptor the requested name resolves to; a 200
\* answer echoes that id as model.
C5_AdapterSeesCanonicalId ==
    /\ [](\A r \in Reqs : reqs[r].pc = "calling" =>
            /\ reqs[r].seen.model = reqs[r].found.ID
            /\ reqs[r].seen.model \in DOMAIN reqs[r].held.registry.models
            /\ reqs[r].held.registry.models[reqs[r].seen.model].model.ID = reqs[r].seen.model
            /\ reqs[r].held.registry.models[reqs[r].seen.model]
                 = reqs[r].held.registry.models[reqs[r].model])
    /\ [][\A r \in Reqs :
            (reqs[r].pc = "calling" /\ reqs'[r].pc = "done" /\ reqs'[r].status = 200)
              => (reqs'[r].respModel = reqs[r].seen.model
                  /\ reqs'[r].respModel = reqs[r].found.ID)]_vars

C5_Witness ==
    \E r \in Reqs :
        /\ reqs[r].pc = "calling"
        /\ reqs[r].model = "alias-x"
        /\ reqs[r].seen.model = "m2"
        /\ reqs[r].seen.op = "completion"
        /\ reqs[r].seen.provider.name = "claude"

(***************************************************************************)
(* Properties of the Claude SSE synthesis.                                 *)
(***************************************************************************)
RECURSIVE TextsUpTo(_, _)
\* The texts of the first n content blocks, joined.
TextsUpTo(blocks, n) ==
    IF n = 0 THEN <<>> ELSE TextsUpTo(blocks, n - 1) \o blocks[n].Text

\* The complete assistant content of an upstream reply.
AssistantContent(reply) ==
    IF reply.api = "claude" THEN TextsUpTo(reply.content, Len(reply.content))
    ELSE reply.choices[1].content

RECURSIVE UnmarshalString(_)
\* The text a client decodes from a JSON string.
UnmarshalString(j) ==
    IF j = <<>> THEN <<>>
    ELSE IF Head(j) # "BSL" THEN <<Head(j)>> \o UnmarshalString(Tail(j))
    ELSE IF Len(j) < 2 THEN <<"invalid">>
    ELSE (IF j[2] = "n" THEN <<"LF">> ELSE <<j[2]>>) \o UnmarshalString(Tail(Tail(j)))

\* A data line is one line: its JSON holds no raw line feed.
OneLine(json) ==
    "text" \in DOMAIN json => \A i \in DOMAIN json.text : json.text[i] # "LF"

RECURSIVE ReadEvents(_)
\* The SSE events a client reads from the body: the frames of an event line
\* and a data line, up to the first thing that is no such frame.
ReadEvents(body) ==
    IF Len(body) >= 2 /\ body[1].line = "event" /\ body[2].line = "data" /\ OneLine(body[2].json)
    THEN <<[name |-> body[1].name, data |-> body[2].json]>>
            \o ReadEvents(SubSeq(body, 3, Len(body)))
    ELSE <<>>

SixEvents ==
    <<"message_start", "content_block_start", "content_block_delta", "content_block_stop",
      "message_delta", "message_stop">>

\* A stream:true request that dispatched successfully on a writer that can
\* flush.
StreamCase == msgReq.requestedStream /\ msgReq.canFlush /\ msgReq.modelID # ""

\* The body is the six events and nothing else, each flushed, the third with
\* the complete assistant content as delta.text.
SixEventsRead ==
    LET evs == ReadEvents(msgReq.body)
    IN  /\ Len(msgReq.body) = 2 * Len(SixEvents)
        /\ Len(evs) = Len(SixEvents)
        /\ \A i \in DOMAIN evs : evs[i].name = SixEvents[i] /\ evs[i].data.type = SixEvents[i]
        /\ UnmarshalString(evs[3].data.text) = AssistantContent(msgReq.reply)
        /\ msgReq.flushes = Len(SixEvents)
        /\ msgReq.flushed = Len(msgReq.body)

\* C10 as stated: the response of a stream:true request that dispatched
\* successfully on a flush-capable writer consists of exactly the six events
\* in order, each flushed after being written, the third with delta.text equal
\* to the complete assistant content of the upstream reply.
C10_StreamIsSixEvents ==
    (msgReq.pc = "done" /\ StreamCase) => SixEventsRead

\* C10 amended: the above holds when no write to the response fails (and the
\* response then has status 200 and is an event stream); in every case the
\* events a client reads are a prefix of the six, in order, the third with
\* the complete assistant content, every event flushed before the next one
\* is written, and once a write has failed no further event is written.
C10_StreamIsSixEventsUnlessWriteFails ==
    /\ []((msgReq.pc = "done" /\ StreamCase /\ ~msgReq.writeFailed)
            => (SixEventsRead /\ msgReq.status = 200
                /\ msgReq.contentType = "text/event-stream"))
    /\ [](StreamCase =>
            LET evs == ReadEvents(msgReq.body)
            IN  /\ Len(evs) <= Len(SixEvents)
                /\ \A i \in DOMAIN evs : evs[i].name = SixEvents[i]
                /\ Len(evs) >= 3
                     => UnmarshalString(evs[3].data.text) = AssistantContent(msgReq.reply)
                /\ msgReq.flushes <= Len(evs) /\ Len(evs) <= msgReq.flushes + 1
                /\ msgReq.pc = "name" => msgReq.flushed = Len(msgReq.body)
                /\ msgReq.pc = "data" => msgReq.flushed = Len(msgReq.body) - 1)
    /\ [][(StreamCase /\ msgReq.writeFailed /\ msgReq'.pc # "decoded")
            => ReadEvents(msgReq'.body) = ReadEvents(msgReq.body)]_vars

C10_Witness ==
    /\ msgReq.pc = "done"
    /\ StreamCase
    /\ ~msgReq.writeFailed
    /\ msgReq.model = "alias-x"
    /\ msgReq.reply.api = "claude"
    /\ Len(msgReq.reply.content) = 2
    /\ AssistantContent(msgReq.reply) = <<"LF", "BSL">>
    /\ msgReq.flushes = 6
    /\ Len(msgReq.body) = 12

\* C11: a stream:true request that dispatched successfully on a writer that
\* cannot flush has no header and no body byte written while the handler
\* runs, and its response is the 500 server_error envelope and nothing else.
C11_NoFlusherFailsBeforeAnyByte ==
    (msgReq.requestedStream /\ ~msgReq.canFlush /\ msgReq.modelID # "") =>
        IF msgReq.pc = "done"
        THEN /\ msgReq.status = 500
             /\ msgReq.contentType = "application/json"
             /\ msgReq.body = <<JSONBody("server_error", <<>>)>>
             /\ msgReq.flushes = 0
        ELSE /\ msgReq.status = 0
             /\ msgReq.contentType = ""
             /\ msgReq.body = <<>>
             /\ msgReq.flushes = 0

C11_Witness ==
    /\ msgReq.pc = "done"
    /\ msgReq.requestedStream
    /\ ~msgReq.canFlush
    /\ msgReq.modelID = "m2"
    /\ msgReq.resp.Content # <<>>
    /\ msgReq.status = 500

\* C12: once the request's context is cancelled, no further SSE event is
\* written or flushed to the response.
C12_NoEventAfterCancellation ==
    [][(msgReq.cancelled /\ msgReq'.cancelled)
         => /\ msgReq'.flushes = msgReq.flushes
            /\ ReadEvents(msgReq'.body) = ReadEvents(msgReq.body)]_vars

(***************************************************************************)
(* Properties of the watcher's termination.                                *)
(***************************************************************************)
\* C13: once the serve context is cancelled, the watcher at its select takes
\* no further tick: it neither stats nor loads nor swaps, it only exits.
C13_NoTickAfterCancellation ==
    [][(ctxDone /\ wpc = "select")
         => /\ wpc' \in {"select", "exited"}
            /\ tick' = tick
            /\ wModTime' = wModTime
            /\ srvRouter' = srvRouter]_vars

(***************************************************************************)
(* Properties of a request from its body to its response.                  *)
(***************************************************************************)
\* C14: a request whose body is larger than maxBodyBytes, on any of the
\* three POST endpoints, is answered 413, and neither the dispatcher nor an
\* upstream is invoked for it.
C14_OversizeBodyIs413 ==
    (ingress.pc = "done" /\ ingress.body.size > maxBodyBytes) =>
        /\ ingress.status = 413
        /\ ~ingress.called
        /\ ingress.sent = 0

\* The request was a well-formed object within the size limit.
WellFormed == ingress.body.form = "object" /\ ingress.body.size <= maxBodyBytes

\* The model names of the plane that a Claude-style adapter serves.
ClaudeStyleNames == {"alias-x", "n2"}

\* The text m occurs in the error message of the response. The pieces of a
\* message are the texts of the code and the model name of the request; no
\* piece holds a text of another piece, and no two pieces join to one.
Says(m) == \E i \in DOMAIN ingress.message : ingress.message[i] = m

\* C15: a /v1/messages request whose only message has the role assistant,
\* for a model served by a Claude-style adapter, is answered 400 with a
\* message saying the conversation must start with a user message, and no
\* upstream call is made.
C15_AssistantFirstIs400 ==
    (/\ ingress.pc = "done"
     /\ ingress.endpoint = "/v1/messages"
     /\ WellFormed
     /\ ingress.body.req.model \in ClaudeStyleNames
     /\ ingress.body.req.messages = <<[Role |-> "assistant", Content |-> "hi"]>>)
    => /\ ingress.status = 400
       /\ Says("claude conversation must start with a user message")
       /\ ingress.sent = 0

\* The request has a message whose content is empty after trimming.
HasBlankMessage ==
    \E i \in DOMAIN ingress.body.req.messages : IsBlank(ingress.body.req.messages[i].Content)

\* C16: answered 400 are a chat or Claude request with a message whose
\* content is empty after trimming, a completion request with an empty
\* prompt, and a request routed to a Claude-style model without a positive
\* max_tokens.
C16_InvalidRequestsAre400 ==
    (ingress.pc = "done" /\ WellFormed)
    => /\ (ingress.endpoint # "/v1/completions" /\ HasBlankMessage) => ingress.status = 400
       /\ (ingress.endpoint = "/v1/completions" /\ IsBlank(ingress.body.req.prompt))
             => ingress.status = 400
       /\ (/\ ingress.endpoint # "/v1/completions"
           /\ ingress.body.req.model \in ClaudeStyleNames
           /\ ingress.body.req.messages = <<[Role |-> "user", Content |-> "hi"]>>
           /\ ~(ingress.body.req.max_tokens.set /\ ingress.body.req.max_tokens.value > 0))
             => ingress.status = 400

\* The handler got a request out of the body and handed it to the dispatcher.
Decoded == decodeRequestBody(ingress.endpoint, ingress.body) = NoHTTPError

\* C17: a request naming a model id that is neither a registered model nor
\* an alias is answered 400, invalid_request_error, with a message that
\* contains unknown_model, and no adapter is invoked.
C17_UnknownModelIs400Naming ==
    (/\ ingress.pc = "done"
     /\ Decoded
     /\ ingress.body.req.model \notin DOMAIN srvRouter.registry.models)
    => /\ ingress.status = 400
       /\ ingress.type = "invalid_request_error"
       /\ Says("unknown_model")
       /\ ~ingress.called

\* What an upstream does that makes the adapter fail: the request fails, the
\* status is 400 or above, the body does not decode, the reply has no choice
\* or no content block, or a block that is no text.
UpstreamFailures ==
    {"network failure", "error status", "undecodable", "no content", "unsupported block"}

\* C18: a request whose adapter failed on the upstream (a network failure,
\* a status of 400 or above, a provider error, a 2xx reply with no choice or
\* no content block) is answered 502 with type upstream_error, never 2xx.
C18_AdapterFailureIs502 ==
    (ingress.pc = "done" /\ ingress.upstream \in UpstreamFailures)
    => /\ ingress.status = 502
       /\ ingress.type = "upstream_error"
       /\ ingress.sent = 1

C18_Witness ==
    /\ ingress.pc = "done"
    /\ ingress.endpoint = "/v1/completions"
    /\ ingress.upstream = "no content"
    /\ ingress.status = 502
    /\ ingress.via = <<"openai">>

\* C19: no upstream request is sent for a canonical request whose stream
\* flag is set: the adapter the dispatcher calls refuses it with
\* unsupported-operation before any round trip, and the client of
\* /v1/chat/completions or /v1/completions who asked for a stream is
\* answered 400 with type invalid_request_error.
C19_StreamIsNeverSentUpstream ==
    (/\ ingress.pc = "done"
     /\ Decoded
     /\ Canonical(ingress.endpoint, ingress.body.req).Stream)
    => /\ ingress.sent = 0
       /\ ingress.status = 400
       /\ ingress.type = "invalid_request_error"
       /\ ingress.called => Says("streaming is not yet supported for provider")
                            \/ Says("completions are not supported by provider")
                            \/ Says(" uses claude api style")

C19_Witness ==
    /\ ingress.pc = "done"
    /\ ingress.endpoint = "/v1/chat/completions"
    /\ ingress.body.req.stream
    /\ ingress.body.req.model = "alias-x"
    /\ ingress.body.req.messages = <<[Role |-> "user", Content |-> "hi"]>>
    /\ ingress.body.req.max_tokens.value = 16
    /\ ingress.called
    /\ ingress.via = <<"claude">>
    /\ ingress.status = 400

(***************************************************************************)
(* Properties of the NVIDIA composite adapter.                             *)
(***************************************************************************)
\* The places where the provider section declares the model of the call.
Declarations == {i \in DOMAIN trial.models : trial.models[i].ID = trial.req.Model}

\* The api_style the section declares for the model of the call; where an
\* id is declared more than once, the declaration nvidia.New reads last.
DeclaredStyle ==
    trial.models[CHOOSE i \in Declarations : \A j \in Declarations : j <= i].APIStyle

\* C20: in the composite adapter, Chat for a configured model is delegated
\* to the inner adapter of the model's declared api_style and to no other;
\* a model id the section does not declare yields unknown-model; Completion
\* for a claude-style model yields unsupported-operation and no inner
\* adapter is called.
C20_DelegatesByDeclaredStyle ==
    trial.pc = "done"
    => /\ (Declarations = {})
             => trial.err.wraps = "unknown model" /\ trial.via = <<>> /\ trial.sent = 0
       /\ (trial.op = "chat" /\ Declarations # {}) => trial.via = <<DeclaredStyle>>
       /\ (trial.op = "completion" /\ Declarations # {} /\ DeclaredStyle = "claude")
             => trial.err.wraps = "unsupported" /\ trial.via = <<>> /\ trial.sent = 0

C20_Witness ==
    /\ trial.pc = "done"
    /\ trial.op = "chat"
    /\ Len(trial.models) = 2
    /\ trial.models[1].ID = "n1" /\ trial.models[1].APIStyle = "openai"
    /\ trial.models[2].ID = "n2" /\ trial.models[2].APIStyle = "claude"
    /\ trial.req.Model = "n2"
    /\ trial.via = <<"claude">>
    /\ trial.sent = 1

(***************************************************************************)
(* Properties of the parsers of stop and system.                           *)
(***************************************************************************)
\* C21: for every string s the chat parser accepts as a stop value,
\* "stop": s and "stop": [s] leave the same value in the options under the
\* key stop; an s that is empty after trimming is refused in both forms.
C21_StopStringIsStopArray ==
    (trial.pc = "done" /\ trial.op = "parseStop")
    => /\ trial.single.err = NoErr => trial.multi = trial.single
       /\ TrimSpace(trial.s) = <<>> => trial.single.err # NoErr /\ trial.multi.err # NoErr

\* C22: the same system texts given as a string, a list of strings, a text
\* block or a list of text blocks come to the same system messages and the
\* same system field, joined on two line feeds.
C22_SystemShapesAgree ==
    (trial.pc = "done" /\ trial.op = "parseClaudeSystem")
    => /\ trial.list.err = NoErr
       /\ trial.blocks = trial.list
       /\ trial.string = trial.list
       /\ trial.block = trial.list
       /\ trial.list.system = Join(SelectSeq([i \in DOMAIN trial.texts |->
                                                 TrimSpace(trial.texts[i])], NonEmpty))

C22_Witness ==
    /\ trial.pc = "done"
    /\ trial.op = "parseClaudeSystem"
    /\ trial.texts = << <<" ", "a">> >>
    /\ trial.block.system = <<"a">>
    /\ trial.string.messages = <<[Role |-> "system", Content |-> <<"a">>]>>

(***************************************************************************)
(* Properties of serve.                                                    *)
(***************************************************************************)
\* C23: with the README's mashup configuration (claude declares
\* claude-3.5-sonnet, nvidia declares moonshotai/kimi-k2.5 and the alias
\* claude-3.5-sonnet -> moonshotai/kimi-k2.5) the registration succeeds, and
\* a request for claude-3.5-sonnet is dispatched to the nvidia adapter with
\* the model moonshotai/kimi-k2.5.
C23_MashupServesKimi ==
    file.content = "mashup"
    => /\ (tick # "" /\ overridePort \in Flags) => tick = "serving"
       /\ \A r \in Reqs :
            (reqs[r].pc = "calling" /\ reqs[r].model = "claude-3.5-sonnet")
            => /\ reqs[r].seen.provider.name = "nvidia"
               /\ reqs[r].seen.model = "moonshotai/kimi-k2.5"

AdapterWrote == trial.pc = "cloned" /\ trial'.pc = "cloned" /\ trial.op = "cloneOptions"

Plane == <<srvCfg, srvRouter, swaps>>

\* C26: a tick goes on to load the configuration only if the stat succeeded
\* and the file's modification time is strictly later than the last one
\* recorded; a tick that stops at the stat, and any step taken while the
\* watcher waits for a tick, leaves the routing plane and the recorded time
\* unchanged, and builds nothing.
C26_TickLoadsOnlyLaterFile ==
    [][/\ (wpc = "select" /\ wpc' = "load")
            => (file.content # "absent" /\ file.mod > lastMod /\ wModTime' = file.mod)
       /\ wpc = "select" => (Plane' = Plane /\ lastMod' = lastMod)
       /\ (wpc = "select" /\ (file.content = "absent" \/ file.mod <= lastMod))
            => wpc' # "load"
       /\ Plane' # Plane => (wpc = "load" /\ wModTime > lastMod)]_vars

C26_Witness ==
    /\ wpc = "select"
    /\ swaps = 1
    /\ lastMod = 1
    /\ file.mod = lastMod
    /\ file.content # "absent"
    /\ tick = "not modified"

(***************************************************************************)
(* Properties of the stream flag of /v1/messages.                          *)
(***************************************************************************)
\* C27: a /v1/messages request reaches the dispatcher with the stream flag
\* off, whatever the stream field of the body: no adapter refuses it for
\* streaming, and a request with stream true has the outcomes of the same
\* request with stream false.
C27_MessagesStreamFlagCleared ==
    (/\ ingress.pc = "done"
     /\ ingress.endpoint = "/v1/messages"
     /\ Decoded)
    => /\ ~Says("streaming is not yet supported for provider")
       /\ \E d \in Dispatched(srvRouter.registry, "chat",
                              [ToUnified(ingress.body.req) EXCEPT !.Stream = FALSE]) :
             /\ d.called = ingress.called
             /\ d.out.sent = ingress.sent
             /\ d.out.via = ingress.via
             /\ d.out.upstream = ingress.upstream
             /\ (d.out.err = NilError) = (ingress.status = 200)

C27_Witness ==
    /\ ingress.pc = "done"
    /\ ingress.endpoint = "/v1/messages"
    /\ ingress.body.req.stream
    /\ ToUnified(ingress.body.req).Stream
    /\ ingress.body.req.model = "alias-x"
    /\ ingress.called
    /\ ingress.sent = 1
    /\ ingress.status = 200

\* C28: the recorded modification time advances only with a swap, to the time
\* of the stat; a reload that failed leaves it unchanged, so that the next
\* tick loads the same file again; and after a swap the file that was just
\* applied is not later than the recorded time, so that no tick applies it
\* again.
C28_RecordedTimeFollowsSwaps ==
    [][/\ lastMod' # lastMod => (swaps' = swaps + 1 /\ lastMod' = wModTime /\ lastMod' > lastMod)
       /\ (wpc = "load" /\ wpc' = "select" /\ swaps' = swaps)
            => (lastMod' = lastMod /\ After(wModTime, lastMod'))
       /\ swaps' # swaps => ~After(file'.mod, lastMod')]_vars

(***************************************************************************)
(* Properties of the registries the server holds.                          *)
(***************************************************************************)
\* The provider section pc, registered as `name', is whole in reg: the
\* provider is known by its name, each model of the section is bound to it
\* under its id, and each alias is bound to what its target is bound to.
SectionRegistered(reg, name, pc) ==
    /\ name \in DOMAIN reg.byName
    /\ \A i \in DOMAIN pc.models :
          /\ pc.models[i].id \in DOMAIN reg.models
          /\ reg.models[pc.models[i].id].model.ID = pc.models[i].id
          /\ reg.models[pc.models[i].id].provider.name = name
    /\ \A a \in DOMAIN pc.aliases :
          /\ a \in DOMAIN reg.models
          /\ pc.aliases[a] \in DOMAIN reg.models
          /\ reg.models[a] = reg.models[pc.aliases[a]]
          /\ reg.models[a].provider.name = name

\* Every provider cfg configures is registered whole in reg.
FullyRegistered(reg, cfg) ==
    /\ SectionRegistered(reg, "openai", cfg.openai)
    /\ SectionRegistered(reg, "claude", cfg.claude)
    /\ cfg.nvidia.present => SectionRegistered(reg, "nvidia", cfg.nvidia)

\* C29: the dispatcher of a running server, the one of startup and every
\* one swapped in by a reload, is backed by a registry in which every
\* provider of the server's configuration registered whole; so is the
\* dispatcher a request in flight still holds, for the configuration it was
\* built from. The registry a failed registration left half filled is held
\* by no one.
C29_NoPartialRegistryServed ==
    /\ srvRouter # NoRouter => FullyRegistered(srvRouter.registry, srvCfg)
    /\ \A r \in Reqs :
          reqs[r].pc \in InFlight
          => \E c \in ConfigFiles :
                /\ Load(c).err = NoErr
                /\ FullyRegistered(reqs[r].held.registry, Load(c).cfg)

C29_Witness ==
    /\ tick = "provider rebuild failed"
    /\ file.content = "aliasOfModel"
    /\ swaps = 0
    /\ wpc = "select"
    /\ \E b \in buildRouter(Load(file.content).cfg) :
          b.err # NoErr /\ b.reg # NewRegistry /\ ~FullyRegistered(b.reg, Load(file.content).cfg)
    /\ \E r \in Reqs : reqs[r].pc = "calling" /\ reqs[r].held = srvRouter

(***************************************************************************)
(* Properties of the alias loop of RegisterProvider.                       *)
(***************************************************************************)
\* The orders in which the alias map of the call `order' can be visited.
SameAliasMap(order) ==
    {o \in AliasOrders : {o[i] : i \in DOMAIN o} = {order[i] : i \in DOMAIN order}}

\* C30: whether RegisterProvider succeeds, and the registry it leaves when
\* it does, depend on the registry, the provider and the alias mapping only,
\* not on the order in which the aliases are visited, also when an alias
\* names another alias of the same mapping as its target.
C30_RegisterProviderIgnoresAliasOrder ==
    [][(lastOp = "idle" /\ lastOp' = "register")
         => \A o \in SameAliasMap(lastCall'.aliases) :
               LET other == RegisterProvider(registry, lastCall'.p, o)
               IN  /\ (other.err = NoErr) = (lastErr' = NoErr)
                   /\ other.err = NoErr => other.reg = registry']_vars

====
